---------------------------- MODULE Spec2Model ----------------------------
(***************************************************************************)
(* Model of the ERC-8004 Python SDK (erc8004_sdk): the feedback            *)
(* authorization signer (signer.py), byte coercion and metadata            *)
(* normalisation (contract.py), the contract invocation layer              *)
(* (contract.py), the IPFS storage helper (storage.py) and the client      *)
(* facade (client.py).                                                     *)
(*                                                                         *)
(* Conventions.  Text is a sequence of Unicode code points, bytes are a    *)
(* sequence of 0..255.  A Python value of unknown type is a tagged record  *)
(* [t, v].  A call's outcome is a record [ok, val, err]: a returned value  *)
(* or the name of the exception class that left the call.                  *)
(***************************************************************************)
EXTENDS Integers, Sequences, FiniteSets, TLC

VARIABLES
    account,     \* AuthFeedback._account: NoAccount before construction
    lastCtor,    \* the last AuthFeedback(private_key=...) call and its outcome
    lastBuild,   \* the last AuthFeedback.build(...) call and its outcome
    lastCoerce,  \* the last coercion / normalisation call and its outcome
    svc,         \* the contract service: _account, _default_account
    node,        \* the connected node: pending count, accepted transactions
    calls,       \* per caller: the operation in progress, its position, its RPC trace
    storage,     \* IPFSStorage: its configuration, the store operation, the requests posted
    facade       \* ERC8004Client: its helpers, the call in progress

vars == <<account, lastCtor, lastBuild, lastCoerce, svc, node, calls, storage, facade>>

----------------------------------------------------------------------------
(* Outcomes and Python values *)

Ok(v) == [ok |-> TRUE, val |-> v, err |-> ""]
Raise(e) == [ok |-> FALSE, val |-> <<>>, err |-> e]

PyNone == [t |-> "none", v |-> <<>>]
PyStr(s) == [t |-> "str", v |-> s]
PyBytes(b) == [t |-> "bytes", v |-> b]
PyByteArray(b) == [t |-> "bytearray", v |-> b]
PyInt(n) == [t |-> "int", v |-> <<n>>]

\* Python truthiness of the values used here: None, "" and b"" are falsy.
Truthy(x) == x.t # "none" /\ (x.t = "int" => x.v[1] # 0) /\ (x.t # "int" => x.v # <<>>)

\* The exception classes of exceptions.py: every one derives from SDKError.
SDKErrors == {"SDKError", "ContractInteractionError", "SignatureError", "IPFSStorageError"}

----------------------------------------------------------------------------
(* Text and byte helpers *)

Rep(c, n) == [i \in 1..n |-> c]

RECURSIVE Concat(_)
Concat(ss) == IF ss = <<>> THEN <<>> ELSE Head(ss) \o Concat(Tail(ss))

StartsWith(s, p) == Len(s) >= Len(p) /\ SubSeq(s, 1, Len(p)) = p

IsHexDigit(c) == c \in 48..57 \/ c \in 97..102 \/ c \in 65..70
HexVal(c) == IF c \in 48..57 THEN c - 48 ELSE IF c \in 97..102 THEN c - 87 ELSE c - 55
HexChar(n) == IF n < 10 THEN 48 + n ELSE 87 + n
Lower(c) == IF c \in 65..90 THEN c + 32 ELSE c
Upper(c) == IF c \in 97..122 THEN c - 32 ELSE c
LowerText(s) == [i \in 1..Len(s) |-> Lower(s[i])]

Prefix0x == <<48, 120>>     \* "0x"
Prefix0X == <<48, 88>>      \* "0X"

\* binascii.hexlify: two lowercase hex digits per byte.
Hexlify(b) ==
    [i \in 1..(2 * Len(b)) |->
        IF i % 2 = 1 THEN HexChar(b[(i + 1) \div 2] \div 16)
                     ELSE HexChar(b[i \div 2] % 16)]

\* binascii.unhexlify on the ASCII encoding of s: an even number of hex
\* digits, anything else (a non-ASCII character included) is a ValueError.
Unhexlify(s) ==
    IF Len(s) % 2 = 0 /\ \A i \in 1..Len(s) : IsHexDigit(s[i])
    THEN Ok([i \in 1..(Len(s) \div 2) |-> 16 * HexVal(s[2 * i - 1]) + HexVal(s[2 * i])])
    ELSE Raise("ValueError")

\* eth_utils.remove_0x_prefix: drops a leading "0x" or "0X".
Remove0xPrefix(s) ==
    IF StartsWith(s, Prefix0x) \/ StartsWith(s, Prefix0X)
    THEN SubSeq(s, 3, Len(s)) ELSE s

\* Hex text to bytes as eth_utils/hexbytes do it: optional prefix removed,
\* an odd number of digits padded with a leading "0", then unhexlify.
HexStrToBytes(s) ==
    LET body == Remove0xPrefix(s)
        even == IF Len(body) % 2 = 1 THEN <<48>> \o body ELSE body
    IN  Unhexlify(even)

----------------------------------------------------------------------------
(* Library primitives used by signer.py *)

\* eth_utils.keccak.  Keccak-256 itself is not computed here: this is a
\* deterministic 32-byte checksum of the input that stands in for it.  The
\* properties checked below use only that the digest is a function of the
\* bytes and is 32 bytes long.
RECURSIVE WeightedSum(_, _, _, _)
WeightedSum(b, lo, hi, weighted) ==
    IF lo > hi THEN 0
    ELSE IF lo = hi THEN (IF weighted THEN lo * (b[lo] + 1) ELSE b[lo] + 1)
    ELSE LET mid == (lo + hi) \div 2
         IN  WeightedSum(b, lo, mid, weighted) + WeightedSum(b, mid + 1, hi, weighted)

keccak(b) ==
    LET s1 == (1 + WeightedSum(b, 1, Len(b), FALSE)) % 251
        s2 == WeightedSum(b, 1, Len(b), TRUE) % 251
    IN  [i \in 1..32 |-> (s1 * (i + 3) + s2 * (2 * i + 1) + i * i) % 256]

\* eth_utils.to_checksum_address, reached through Web3.to_checksum_address:
\* a non-string is a TypeError; text that is not 40 hex digits after an
\* optional 0x/0X prefix is a ValueError; otherwise the digits are lowercased
\* and letter i is uppercased when nibble i of keccak(lowercase digits) > 7.
\* The input's own letter case is never validated.
ChecksumCase(lower) ==
    LET h == keccak(lower)
        nib(i) == IF i % 2 = 1 THEN h[(i + 1) \div 2] \div 16 ELSE h[i \div 2] % 16
    IN  [i \in 1..Len(lower) |-> IF nib(i) > 7 THEN Upper(lower[i]) ELSE lower[i]]

\* Variant of to_checksum_address that keeps the letters as they are given.
to_checksum_address_KeepCase(x) ==
    IF x.t # "str" THEN Raise("TypeError")
    ELSE LET body == Remove0xPrefix(x.v)
         IN  IF Len(body) = 40 /\ \A i \in 1..40 : IsHexDigit(body[i])
             THEN Ok(Prefix0x \o body)
             ELSE Raise("ValueError")

to_checksum_address(x) ==
    IF x.t # "str" THEN Raise("TypeError")
    ELSE LET body == Remove0xPrefix(x.v)
         IN  IF Len(body) = 40 /\ \A i \in 1..40 : IsHexDigit(body[i])
             THEN Ok(Prefix0x \o ChecksumCase(LowerText(body)))
             ELSE Raise("ValueError")

\* The 20 bytes an address text stands for.
AddressBytes(a) == Unhexlify(Remove0xPrefix(a)).val

\* eth_abi.encode for the static types of ABI_TYPES: one 32-byte slot per
\* value, big-endian and zero-padded on the left.  Integers of the model are
\* below 2^31, so only the last four bytes of an integer slot can be non-zero.
EncodeUint(n) ==
    Rep(0, 28) \o <<(n \div 16777216) % 256, (n \div 65536) % 256, (n \div 256) % 256, n % 256>>

EncodeAddress(a) == Rep(0, 12) \o AddressBytes(a)

EncodeSlot(type, v) == IF type = "address" THEN EncodeAddress(v) ELSE EncodeUint(v)

\* eth_abi refuses a negative integer for an unsigned type (ValueOutOfBounds).
AbiEncodable(types, values) ==
    \A i \in 1..Len(types) : types[i] # "address" => values[i] >= 0

abi_encode(types, values) ==
    Concat([i \in 1..Len(types) |-> EncodeSlot(types[i], values[i])])

\* eth_abi.decode: an integer slot is read back as the integer, an address
\* slot as "0x" and the lowercase hex of its last 20 bytes.
DecodeUint(slot) == slot[29] * 16777216 + slot[30] * 65536 + slot[31] * 256 + slot[32]
DecodeAddress(slot) == Prefix0x \o Hexlify(SubSeq(slot, 13, 32))
DecodeSlot(type, slot) == IF type = "address" THEN DecodeAddress(slot) ELSE DecodeUint(slot)

abi_decode(types, data) ==
    [i \in 1..Len(types) |-> DecodeSlot(types[i], SubSeq(data, 32 * (i - 1) + 1, 32 * i))]

\* eth_account.messages.encode_defunct(primitive=h), as the bytes that are
\* hashed: 0x19 "Ethereum Signed Message:\n" <decimal length of h> h.
SignedMessageHeader ==
    <<25, 69, 116, 104, 101, 114, 101, 117, 109, 32, 83, 105, 103, 110, 101, 100,
      32, 77, 101, 115, 115, 97, 103, 101, 58, 10>>

encode_defunct(h) ==
    SignedMessageHeader \o <<48 + (Len(h) \div 10), 48 + (Len(h) % 10)>> \o h

\* secp256k1 stand-in.  A private key is 32 bytes; the signature of a 32-byte
\* digest d is r (32) s (32) v (1), and Recover has the law of ECDSA public
\* key recovery: Recover(d, SignDigest(k, d)) is the address of k, and a
\* signature checked against another digest recovers another key's address.
PublicKey(k) == k \o [i \in 1..32 |-> (7 * k[i] + i) % 256]

AddressOfKey(k) ==
    to_checksum_address(PyStr(Prefix0x \o Hexlify(SubSeq(keccak(PublicKey(k)), 13, 32)))).val

SignDigest(k, d) ==
    [i \in 1..32 |-> (d[i] + k[i]) % 256]
        \o [i \in 1..32 |-> (k[i] + 3 * d[i] + i) % 256]
        \o <<27 + (k[32] % 2)>>

Recover(d, sig) == AddressOfKey([i \in 1..32 |-> (sig[i] + 256 - d[i]) % 256])

\* Account.recover_message(encode_defunct(primitive=h), signature=sig)
recover_message(h, sig) == Recover(keccak(encode_defunct(h)), sig)

\* Account.from_key: the key is read as hex text (HexBytes) and must be
\* exactly 32 bytes; every rejection is a ValueError.
NoAccount == [key |-> <<>>, address |-> <<>>]

from_key(private_key) ==
    LET raw == IF private_key.t = "str" THEN HexStrToBytes(private_key.v)
               ELSE IF private_key.t = "bytes" THEN Ok(private_key.v)
               ELSE Raise("TypeError")
    IN  IF ~raw.ok THEN raw
        ELSE IF Len(raw.val) # 32 THEN Raise("ValueError")
        ELSE Ok([key |-> raw.val, address |-> AddressOfKey(raw.val)])

\* LocalAccount.sign_message.  The signing backend is outside the SDK; build()
\* guards against one that misbehaves, so its behaviour is an input: it
\* returns the signature, returns one of the wrong length, or raises.
SigningBackends == {"ok", "short", "long", "raises"}

sign_message(acct, message, backend) ==
    LET sig == SignDigest(acct.key, keccak(message))
    IN  CASE backend = "ok" -> Ok(sig)
          [] backend = "short" -> Ok(SubSeq(sig, 1, 64))
          [] backend = "long" -> Ok(sig \o <<0>>)
          [] OTHER -> Raise("ValueError")

----------------------------------------------------------------------------
(* signer.py: FeedbackAuthPayload and AuthFeedback *)

ABI_TYPES == <<"uint256", "address", "uint64", "uint256", "uint256", "address", "address">>

\* Variant of encoded with index_limit and expiry in each other's slot.
encoded_Swapped(p) ==
    abi_encode(ABI_TYPES,
        <<p.agent_id,
          to_checksum_address(PyStr(p.client_address)).val,
          p.expiry,
          p.index_limit,
          p.chain_id,
          to_checksum_address(PyStr(p.identity_registry)).val,
          to_checksum_address(PyStr(p.signer_address)).val>>)
    \o p.signature

\* FeedbackAuthPayload.encoded: the struct re-encoded from the payload's
\* fields, addresses passed through to_checksum_address again, then the
\* signature bytes.
encoded(p) ==
    abi_encode(ABI_TYPES,
        <<p.agent_id,
          to_checksum_address(PyStr(p.client_address)).val,
          p.index_limit,
          p.expiry,
          p.chain_id,
          to_checksum_address(PyStr(p.identity_registry)).val,
          to_checksum_address(PyStr(p.signer_address)).val>>)
    \o p.signature

\* FeedbackAuthPayload.hex
hex(p) == Prefix0x \o Hexlify(encoded(p))

\* Variant of AuthFeedback that lets from_key's ValueError through.
AuthFeedback_Unwrapped(private_key) ==
    IF ~Truthy(private_key) THEN Raise("SignatureError") ELSE from_key(private_key)

\* AuthFeedback.__init__: a falsy key and a key from_key rejects with
\* ValueError are SignatureError; any other exception leaves as it is.
AuthFeedback(private_key) ==
    IF ~Truthy(private_key) THEN Raise("SignatureError")
    ELSE LET r == from_key(private_key)
         IN  IF r.ok THEN r
             ELSE IF r.err = "ValueError" THEN Raise("SignatureError")
             ELSE r

\* A keyword call is a sequence of <<name, value>> pairs in the order the
\* caller wrote them; a keyword-only parameter is bound by its name.
HasArg(kwargs, name) == \E i \in 1..Len(kwargs) : kwargs[i][1] = name
Arg(kwargs, name, default) ==
    IF HasArg(kwargs, name)
    THEN kwargs[CHOOSE i \in 1..Len(kwargs) : kwargs[i][1] = name][2]
    ELSE default

\* Variant of SignatureFor without the length check of the signature.
SignatureFor_NoLengthCheck(acct, message_hash, backend) ==
    LET signed == sign_message(acct, encode_defunct(message_hash), backend)
    IN  IF ~signed.ok THEN Raise("SignatureError") ELSE signed

\* Variant of SignatureFor that signs the digest without the message prefix.
SignatureFor_NoPrefix(acct, message_hash, backend) ==
    LET signed == sign_message(acct, message_hash, backend)
    IN  IF ~signed.ok THEN Raise("SignatureError")
        ELSE IF Len(signed.val) # 65 THEN Raise("SignatureError")
        ELSE signed

\* The signature build() accepts: sign_message wrapped in the try block,
\* then the length check.
SignatureFor(acct, message_hash, backend) ==
    LET signed == sign_message(acct, encode_defunct(message_hash), backend)
    IN  IF ~signed.ok THEN Raise("SignatureError")
        ELSE IF Len(signed.val) # 65 THEN Raise("SignatureError")
        ELSE signed

\* Variant of SignerChoice that always takes the signer's own address.
SignerChoice_IgnoresOverride(acct, signer_address) == PyStr(acct.address)

\* The value build() checksums into the seventh field.
SignerChoice(acct, signer_address) ==
    IF Truthy(signer_address) THEN signer_address ELSE PyStr(acct.address)

\* The struct build() signs, from the normalised values.
StructBytes(agent_id, client, index_limit, expiry, chain_id, registry, signer) ==
    abi_encode(ABI_TYPES, <<agent_id, client, index_limit, expiry, chain_id, registry, signer>>)

\* AuthFeedback.build
build(acct, kwargs, backend) ==
    LET agent_id == Arg(kwargs, "agent_id", 0)
        index_limit == Arg(kwargs, "index_limit", 0)
        expiry == Arg(kwargs, "expiry", 0)
        chain_id == Arg(kwargs, "chain_id", 0)
        signer == to_checksum_address(SignerChoice(acct, Arg(kwargs, "signer_address", PyNone)))
        client == to_checksum_address(Arg(kwargs, "client_address", PyNone))
        registry == to_checksum_address(Arg(kwargs, "identity_registry", PyNone))
    IN  IF ~signer.ok THEN Raise(signer.err)
        ELSE IF ~client.ok THEN Raise(client.err)
        ELSE IF ~registry.ok THEN Raise(registry.err)
        ELSE IF ~AbiEncodable(ABI_TYPES,
                    <<agent_id, client.val, index_limit, expiry, chain_id, registry.val, signer.val>>)
             THEN Raise("ValueOutOfBounds")
        ELSE LET struct_bytes == StructBytes(agent_id, client.val, index_limit, expiry,
                                             chain_id, registry.val, signer.val)
                 signature == SignatureFor(acct, keccak(struct_bytes), backend)
             IN  IF ~signature.ok THEN Raise(signature.err)
                 ELSE Ok([agent_id |-> agent_id,
                          client_address |-> client.val,
                          index_limit |-> index_limit,
                          expiry |-> expiry,
                          chain_id |-> chain_id,
                          identity_registry |-> registry.val,
                          signer_address |-> signer.val,
                          signature |-> signature.val])

\* build() assigns to no attribute of the signer.
AccountAfterBuild(acct, kwargs) == acct

----------------------------------------------------------------------------
(* The signer as a state machine: one signer slot, constructed once, then    *)
(* any sequence of build() calls.                                            *)

Hex40(c) == Prefix0x \o Rep(c, 40)

\* Keys offered to the constructor: None, "", too short, not hex, and valid
\* keys with and without the 0x prefix.
PrivateKeyInputs ==
    { PyNone,
      PyStr(<<>>),
      PyStr(Prefix0x \o <<49, 50, 51, 52>>),
      PyStr(<<122, 122>>),
      PyStr(Prefix0x \o Rep(49, 64)),
      PyStr(Rep(55, 63) \o <<97>>) }

\* Address arguments: valid in several spellings (lower, upper, mixed case,
\* upper-case prefix, no prefix), and invalid (short, not hex, empty, None).
AddrLowerAB == Prefix0x \o [i \in 1..40 |-> IF i % 2 = 1 THEN 97 ELSE 98]
AddrUpperAB == Prefix0X \o [i \in 1..40 |-> IF i % 2 = 1 THEN 65 ELSE 66]
AddrMixedAB == Prefix0x \o [i \in 1..40 |-> IF i % 2 = 1 THEN 65 ELSE 98]
AddrBareCD == [i \in 1..40 |-> IF i % 2 = 1 THEN 99 ELSE 100]

ClientAddressInputs ==
    { PyStr(Hex40(49)), PyStr(AddrLowerAB), PyStr(AddrUpperAB), PyStr(AddrMixedAB),
      PyStr(Prefix0x \o <<49, 50, 51, 52>>), PyStr(Hex40(103)), PyNone }

RegistryInputs ==
    { PyStr(Hex40(50)), PyStr(AddrBareCD), PyStr(<<>>), PyStr(Rep(50, 41)) }

\* signer_address: left out, None, "", another account's address, an invalid
\* one; the signer's own address in lower case is added in Build.
Omitted == [t |-> "omitted", v |-> <<>>]
SignerAddressInputs ==
    { Omitted, PyNone, PyStr(<<>>), PyStr(Hex40(53)), PyStr(Prefix0x \o <<53>>) }

\* Integer fields <<agent_id, index_limit, expiry, chain_id>>: pairwise
\* different values, values above one byte, and negative ones.
IntFieldInputs ==
    { <<123, 5, 1700003600, 1>>,
      <<1, 10, 1000, 56>>,
      <<70000, 300, 0, 97>>,
      <<-1, 5, 1700003600, 1>>,
      <<123, -5, 1700003600, 1>> }

FieldNames ==
    <<"agent_id", "client_address", "index_limit", "expiry", "chain_id",
      "identity_registry", "signer_address">>

\* Orders in which a caller may write the keyword arguments.
KwargOrders ==
    { FieldNames,
      [i \in 1..7 |-> FieldNames[8 - i]],
      <<"signer_address", "chain_id", "agent_id", "identity_registry",
        "expiry", "client_address", "index_limit">> }

Kwargs(order, ints, client, registry, signer_address) ==
    LET value(name) ==
            CASE name = "agent_id" -> ints[1]
              [] name = "index_limit" -> ints[2]
              [] name = "expiry" -> ints[3]
              [] name = "chain_id" -> ints[4]
              [] name = "client_address" -> client
              [] name = "identity_registry" -> registry
              [] OTHER -> signer_address
        given == SelectSeq(order, LAMBDA n : n # "signer_address" \/ signer_address # Omitted)
    IN  [i \in 1..Len(given) |-> <<given[i], value(given[i])>>]

\* Payloads build() returns: a signer's own, and one that names another
\* account as signer.
BuiltPayloads ==
    {build(from_key(PyStr(Prefix0x \o Rep(49, 64))).val,
           Kwargs(FieldNames, <<123, 5, 1700003600, 1>>, PyStr(AddrUpperAB),
                  PyStr(AddrBareCD), sa),
           "ok").val : sa \in {Omitted, PyStr(Hex40(53))}}

NoCtor == [called |-> FALSE, private_key |-> PyNone, result |-> Raise("")]
NoBuild == [called |-> FALSE, kwargs |-> <<>>, backend |-> "ok", result |-> Raise("")]
NoCoerce == [called |-> FALSE, op |-> "", input |-> PyNone, result |-> Raise("")]
NoService == [account |-> NoAccount, default_account |-> <<>>]
NoNode == [pending |-> 0, mined |-> 0, accepted |-> <<>>]
NoCalls == <<>>
NoClient ==
    [pc |-> "none", ipfs_storage |-> PyNone, auth_builder |-> PyNone, op |-> "",
     given |-> <<>>, connections |-> 0, helper |-> <<>>, result |-> Raise("")]
NoStorage ==
    [pc |-> "none", cfg |-> [ipfs_gateway |-> PyNone, api_key |-> PyNone], op |-> "",
     input |-> "", posts |-> <<>>, pinning |-> Raise(""), answer |-> Raise(""), result |-> Raise("")]

\* signer = AuthFeedback(private_key=k)
Construct ==
    /\ account = NoAccount
    /\ \E k \in PrivateKeyInputs :
          LET r == AuthFeedback(k)
          IN  /\ lastCtor' = [called |-> TRUE, private_key |-> k, result |-> r]
              /\ account' = IF r.ok THEN r.val ELSE account
    /\ UNCHANGED <<facade, lastBuild, lastCoerce, svc, node, calls, storage>>

\* signer.build(**kwargs), called when the previous call's outcome has been
\* taken by the caller.
Build ==
    /\ account # NoAccount
    /\ ~lastBuild.called
    /\ \E order \in KwargOrders, ints \in IntFieldInputs, client \in ClientAddressInputs,
          registry \in RegistryInputs,
          sa \in SignerAddressInputs \cup {PyStr(LowerText(account.address))},
          backend \in SigningBackends :
          LET kwargs == Kwargs(order, ints, client, registry, sa)
          IN  /\ lastBuild' = [called |-> TRUE, kwargs |-> kwargs, backend |-> backend,
                               result |-> build(account, kwargs, backend)]
              /\ account' = AccountAfterBuild(account, kwargs)
    /\ UNCHANGED <<facade, lastCtor, lastCoerce, svc, node, calls, storage>>

\* The caller is done with the payload (or the exception) of the last
\* build(): the payload owns no resource, nothing of the signer changes.
Release ==
    /\ lastBuild.called
    /\ lastBuild' = NoBuild
    /\ UNCHANGED <<facade, account, lastCtor, lastCoerce, svc, node, calls, storage>>

SignerInit ==
    /\ account = NoAccount
    /\ lastCtor = NoCtor
    /\ lastBuild = NoBuild
    /\ lastCoerce = NoCoerce
    /\ svc = NoService
    /\ node = NoNode
    /\ calls = NoCalls
    /\ storage = NoStorage
    /\ facade = NoClient

SignerNext == Construct \/ Build \/ Release

SpecSigner == SignerInit /\ [][SignerNext]_vars

----------------------------------------------------------------------------
(* contract.py: byte coercion and metadata normalisation *)

\* Characters str.strip() removes (the ASCII ones and the no-break space).
Whitespace == {9, 10, 11, 12, 13, 28, 29, 30, 31, 32, 133, 160}

\* str.strip()
strip(s) ==
    LET keep == {i \in 1..Len(s) : s[i] \notin Whitespace}
    IN  IF keep = {} THEN <<>>
        ELSE SubSeq(s, CHOOSE i \in keep : \A j \in keep : i <= j,
                       CHOOSE i \in keep : \A j \in keep : i >= j)

\* str.encode("utf-8"), for code points of the basic multilingual plane.
Utf8Char(c) ==
    IF c < 128 THEN <<c>>
    ELSE IF c < 2048 THEN <<192 + (c \div 64), 128 + (c % 64)>>
    ELSE <<224 + (c \div 4096), 128 + ((c \div 64) % 64), 128 + (c % 64)>>

utf8(s) == Concat([i \in 1..Len(s) |-> Utf8Char(s[i])])

\* Variant of _to_bytes_general that does not trim the text.
_to_bytes_general_NoStrip(value) ==
    IF value.t = "bytes" THEN Ok(value.v)
    ELSE IF value.t = "bytearray" THEN Ok(value.v)
    ELSE IF value.t = "str"
    THEN IF StartsWith(value.v, Prefix0x)
         THEN LET r == HexStrToBytes(value.v)
              IN  IF r.ok THEN r
                  ELSE IF r.err = "ValueError" THEN Raise("ContractInteractionError")
                  ELSE r
         ELSE Ok(utf8(value.v))
    ELSE Raise("ContractInteractionError")

\* _to_bytes_general
_to_bytes_general(value) ==
    IF value.t = "bytes" THEN Ok(value.v)
    ELSE IF value.t = "bytearray" THEN Ok(value.v)
    ELSE IF value.t = "str"
    THEN LET stripped == strip(value.v)
         IN  IF StartsWith(stripped, Prefix0x)
             THEN LET r == HexStrToBytes(stripped)
                  IN  IF r.ok THEN r
                      ELSE IF r.err = "ValueError" THEN Raise("ContractInteractionError")
                      ELSE r
             ELSE Ok(utf8(stripped))
    ELSE Raise("ContractInteractionError")

\* The width of a bytes32 value.
Bytes32Width == 32

\* bytes.ljust(width, fill)
ljust(b, width, fill) == IF Len(b) >= width THEN b ELSE b \o Rep(fill, width - Len(b))

\* Variant of _coerce_bytes32 that pads on the left.
_coerce_bytes32_LeftPad(value) ==
    LET raw == _to_bytes_general(value)
    IN  IF ~raw.ok THEN raw
        ELSE IF Len(raw.val) > Bytes32Width THEN Raise("ContractInteractionError")
        ELSE Ok(Rep(0, Bytes32Width - Len(raw.val)) \o raw.val)

\* ReputationRegistryService._coerce_bytes32
_coerce_bytes32(value) ==
    LET raw == _to_bytes_general(value)
    IN  IF ~raw.ok THEN raw
        ELSE IF Len(raw.val) > Bytes32Width THEN Raise("ContractInteractionError")
        ELSE Ok(ljust(raw.val, Bytes32Width, 0))

\* _to_bytes: a ContractInteractionError of _to_bytes_general is raised again
\* as ContractInteractionError with the metadata message.
_to_bytes(value) ==
    LET r == _to_bytes_general(value)
    IN  IF ~r.ok /\ r.err = "ContractInteractionError"
        THEN Raise("ContractInteractionError") ELSE r

\* A metadata entry is a MetadataEntry object, which always has the attributes
\* key and value, or a mapping with any set of keys.
IsMetadataEntry(entry) == entry.shape = "MetadataEntry"

\* One iteration of the loop of normalize_metadata_entries.
NormalizeEntry(entry) ==
    IF ~IsMetadataEntry(entry)
          /\ ("key" \notin DOMAIN entry.fields \/ "value" \notin DOMAIN entry.fields)
    THEN Raise("ContractInteractionError")
    ELSE LET key == entry.fields["key"]
             value == entry.fields["value"]
         IN  IF key.t # "str" THEN Raise("ContractInteractionError")
             ELSE LET value_bytes == _to_bytes(value)
                  IN  IF ~value_bytes.ok THEN value_bytes
                      ELSE Ok([key |-> key.v, value |-> value_bytes.val])

\* Variant of normalize_metadata_entries that leaves out the entries it
\* cannot normalise.
normalize_metadata_entries_SkipsBad(metadata) ==
    LET good == SelectSeq(metadata, LAMBDA e : NormalizeEntry(e).ok)
    IN  Ok([i \in 1..Len(good) |-> NormalizeEntry(good[i]).val])

\* normalize_metadata_entries: the entries in order, the first failure ends
\* the call.
normalize_metadata_entries(metadata) ==
    LET bad == {i \in 1..Len(metadata) : ~NormalizeEntry(metadata[i]).ok}
    IN  IF bad # {}
        THEN NormalizeEntry(metadata[CHOOSE i \in bad : \A j \in bad : i <= j])
        ELSE Ok([i \in 1..Len(metadata) |-> NormalizeEntry(metadata[i]).val])

----------------------------------------------------------------------------
(* The coercion functions are pure: a state holds one call, its input drawn  *)
(* in the initial state, and the action of that function applies it.        *)

\* Longest generated text, and longest metadata list.
MaxTextLen == 4
MaxEntries == 2

\* space, "0", "x", "a", "G", e-acute
Alphabet == {32, 48, 120, 97, 71, 233}

RECURSIVE TextsUpTo(_)
TextsUpTo(n) ==
    IF n = 0 THEN {<<>>}
    ELSE LET shorter == TextsUpTo(n - 1)
         IN  shorter \cup {Append(t, c) : t \in {u \in shorter : Len(u) = n - 1}, c \in Alphabet}

\* Texts around the 32-byte limit and other spellings: upper-case prefix and
\* digits, surrounding tab and newline, a three-byte character.
LongTexts ==
    { Rep(97, 31), Rep(97, 32), Rep(97, 33),
      Rep(233, 16), Rep(233, 17),
      Prefix0x \o Rep(98, 64), Prefix0x \o Rep(98, 66),
      Prefix0x \o Rep(98, 63), Prefix0x \o Rep(98, 65),
      <<32, 32>> \o Rep(97, 32) \o <<10>>,
      <<9>> \o Prefix0x \o <<49, 50, 51, 52>> \o <<10>>,
      Prefix0X \o <<49, 50>>,
      Prefix0x \o <<65, 66>>,
      Prefix0x \o <<49, 50, 51, 52>>,
      <<104, 101, 108, 108, 111>>,
      <<8364>> }

ByteStrings ==
    { <<>>, <<0>>, <<48, 120>>, <<32, 255, 0, 32>>, <<98, 97, 114>>,
      Rep(97, 31), Rep(97, 32), Rep(97, 33) }

CoercionInputs ==
    {PyStr(t) : t \in TextsUpTo(MaxTextLen) \cup LongTexts}
        \cup {PyBytes(b) : b \in ByteStrings}
        \cup {PyByteArray(b) : b \in ByteStrings}
        \cup {PyInt(123), PyNone}

\* Metadata entries: MetadataEntry objects and mappings, with a key that is
\* text or not, a value of each kind, and mappings lacking a field.
MetadataKeys == { PyStr(<<107>>), PyStr(<<102, 111, 111>>), PyInt(7) }
MetadataValues ==
    { PyBytes(<<98, 97, 114>>), PyStr(<<116, 101, 120, 116>>),
      PyStr(Prefix0x \o <<49, 50, 51, 52>>), PyStr(Prefix0x \o <<122, 122>>),
      PyByteArray(<<1, 2>>), PyInt(123) }

MetadataInputs ==
    {[shape |-> sh, fields |-> [key |-> k, value |-> v]] :
        sh \in {"MetadataEntry", "mapping"}, k \in MetadataKeys, v \in MetadataValues}
    \cup {[shape |-> "mapping", fields |-> [key |-> k]] : k \in MetadataKeys}
    \cup {[shape |-> "mapping", fields |-> [value |-> PyStr(Prefix0x \o <<49, 50, 51, 52>>)]]}
    \cup {[shape |-> "mapping", fields |-> [other |-> PyNone]]}
    \cup {[shape |-> "mapping",
           fields |-> [key |-> PyStr(<<107>>), value |-> PyBytes(<<1>>), other |-> PyNone]]}

RECURSIVE ListsUpTo(_, _)
ListsUpTo(S, n) ==
    IF n = 0 THEN {<<>>}
    ELSE LET shorter == ListsUpTo(S, n - 1)
         IN  shorter \cup {Append(l, e) : l \in {u \in shorter : Len(u) = n - 1}, e \in S}

CoercionInit ==
    /\ account = NoAccount
    /\ lastCtor = NoCtor
    /\ lastBuild = NoBuild
    /\ svc = NoService
    /\ node = NoNode
    /\ calls = NoCalls
    /\ storage = NoStorage
    /\ facade = NoClient
    /\ \/ \E op \in {"_to_bytes_general", "_coerce_bytes32"}, x \in CoercionInputs :
             lastCoerce = [called |-> FALSE, op |-> op, input |-> x, result |-> Raise("")]
       \/ \E md \in ListsUpTo(MetadataInputs, MaxEntries) :
             lastCoerce = [called |-> FALSE, op |-> "normalize_metadata_entries",
                           input |-> md, result |-> Raise("")]

ToBytesGeneral ==
    /\ ~lastCoerce.called
    /\ lastCoerce.op = "_to_bytes_general"
    /\ lastCoerce' = [lastCoerce EXCEPT !.called = TRUE,
                                        !.result = _to_bytes_general(lastCoerce.input)]
    /\ UNCHANGED <<facade, account, lastCtor, lastBuild, svc, node, calls, storage>>

CoerceBytes32 ==
    /\ ~lastCoerce.called
    /\ lastCoerce.op = "_coerce_bytes32"
    /\ lastCoerce' = [lastCoerce EXCEPT !.called = TRUE,
                                        !.result = _coerce_bytes32(lastCoerce.input)]
    /\ UNCHANGED <<facade, account, lastCtor, lastBuild, svc, node, calls, storage>>

NormalizeMetadata ==
    /\ ~lastCoerce.called
    /\ lastCoerce.op = "normalize_metadata_entries"
    /\ lastCoerce' = [lastCoerce EXCEPT !.called = TRUE,
                                        !.result = normalize_metadata_entries(lastCoerce.input)]
    /\ UNCHANGED <<facade, account, lastCtor, lastBuild, svc, node, calls, storage>>

CoercionNext == ToBytesGeneral \/ CoerceBytes32 \/ NormalizeMetadata

SpecCoercion == CoercionInit /\ [][CoercionNext]_vars

----------------------------------------------------------------------------
(* contract.py: the contract invocation layer.  An operation of a service is *)
(* a sequence of blocking RPC calls to the connected node; each RPC is one   *)
(* step of the caller, and the node's answer to it is an input of the step.  *)

\* How many operations a caller starts.
MaxOps == 1

Callers == {"c1"}

\* BaseContractService.__init__, after the connection check.
BaseContractService(config, connected) ==
    IF ~connected THEN Raise("ContractInteractionError")
    ELSE LET address == to_checksum_address(config.contract_address)
             acct == IF Truthy(config.private_key) THEN from_key(config.private_key)
                     ELSE Ok(NoAccount)
         IN  IF ~address.ok THEN Raise(address.err)
             ELSE IF ~acct.ok THEN Raise(acct.err)
             ELSE LET default == IF Truthy(config.private_key) /\ ~Truthy(config.default_account)
                                 THEN PyStr(acct.val.address)
                                 ELSE config.default_account
                      checksummed == to_checksum_address(default)
                  IN  IF ~Truthy(default) THEN Raise("ContractInteractionError")
                      ELSE IF ~checksummed.ok THEN Raise(checksummed.err)
                      ELSE Ok([account |-> acct.val, default_account |-> checksummed.val])

\* Configurations: a private key alone, a default account alone, and a
\* private key with another account as default account.
ServiceConfigs ==
    {[contract_address |-> PyStr(Hex40(49)), default_account |-> d, private_key |-> k] :
        d \in {PyNone, PyStr(Hex40(51))}, k \in {PyNone, PyStr(Prefix0x \o Rep(49, 64))}}

Services ==
    {BaseContractService(cfg, TRUE).val :
        cfg \in {c \in ServiceConfigs : BaseContractService(c, TRUE).ok}}

\* Answers of the node.
RpcErrors == {"ContractLogicError", "ValueError", "ConnectionError"}
SimulatedIds == {PyInt(7), PyInt(0), PyNone}
FeeHistories ==
    {[reward |-> <<<<2>>>>, baseFeePerGas |-> <<5, 7>>],
     [reward |-> <<>>, baseFeePerGas |-> <<5, 7>>]}
GasPrices == {3}
GasEstimates == {21000}
TxHashes == {<<10, 170>>, <<202, 254, 186, 190>>}

\* Arguments of the callers.
GasLimits == {0, 50000}
Values == {0, 1}
TokenUris == {<<105, 112, 102, 115, 58, 47, 47, 97>>}
MetadataLists ==
    { <<>>,
      <<[shape |-> "mapping",
         fields |-> [key |-> PyStr(<<107>>), value |-> PyStr(Prefix0x \o <<49, 50, 51, 52>>)]]>>,
      <<[shape |-> "mapping", fields |-> [key |-> PyStr(<<107>>)]]>> }

NoArgs == [token_uri |-> <<>>, metadata |-> <<>>, gas_limit |-> 0, value |-> 0]
NoParams == [nonce |-> 0]
IdleCall ==
    [pc |-> "idle", n |-> 0, op |-> "", given |-> NoArgs, args |-> NoArgs, fn |-> <<>>,
     simulated |-> Raise(""),
     began |-> 0, agent_id |-> PyNone, fee_history |-> Raise(""), gas_price |-> Raise(""),
     estimate |-> Raise(""), built |-> Raise(""), receipt |-> Raise(""),
     tx_params |-> NoParams, trace |-> <<>>, result |-> Raise("")]

RegisterOps == {"register_minimal", "register_with_uri", "register_agent"}

\* The operation ends: its outcome is what the caller gets.
Finish(call, outcome) == [call EXCEPT !.pc = "done", !.result = outcome]
Rpc(call, name) == [call EXCEPT !.trace = Append(@, name)]

\* The method of ERC8004Client hands its keyword arguments to the method of
\* the service, directly or in an arguments object.  revoke_feedback builds
\* ReputationRevokeFeedbackArgs(agent_id, feedback_index, gas_limit): its
\* value is not passed and the object keeps the default, 0.
Forward(op, given) ==
    IF op = "revoke_feedback" THEN [given EXCEPT !.value = 0] ELSE given

\* A caller starts register_minimal / register_with_uri / register_agent:
\* everything up to the first RPC.  register_agent normalises the metadata
\* first, and ends there when that fails.
Begin(call, op, given) ==
    [IdleCall EXCEPT !.n = call.n + 1, !.op = op, !.given = given,
                     !.args = Forward(op, given), !.pc = "simulate",
                     !.began = Len(node.accepted)]

\* The client is synchronous: a caller starts an operation when its previous
\* one has returned and no store operation is in progress.
CanStart(c) == calls[c].pc = "idle" /\ calls[c].n < MaxOps /\ storage = NoStorage

StartRegisterMinimal(c) ==
    /\ CanStart(c)
    /\ \E g \in GasLimits, v \in Values :
          calls' = [calls EXCEPT ![c] =
                       Begin(@, "register_minimal", [NoArgs EXCEPT !.gas_limit = g, !.value = v])]
    /\ UNCHANGED <<facade, account, lastCtor, lastBuild, lastCoerce, svc, node, storage>>

StartRegisterWithUri(c) ==
    /\ CanStart(c)
    /\ \E u \in TokenUris, g \in GasLimits, v \in Values :
          calls' = [calls EXCEPT ![c] =
                       Begin(@, "register_with_uri",
                             [NoArgs EXCEPT !.token_uri = u, !.gas_limit = g, !.value = v])]
    /\ UNCHANGED <<facade, account, lastCtor, lastBuild, lastCoerce, svc, node, storage>>

StartRegisterAgent(c) ==
    /\ CanStart(c)
    /\ \E u \in TokenUris, md \in MetadataLists, g \in GasLimits, v \in Values :
          LET args == [token_uri |-> u, metadata |-> md, gas_limit |-> g, value |-> v]
              metadata_payload == normalize_metadata_entries(md)
              begun == Begin(calls[c], "register_agent", args)
          IN  calls' = [calls EXCEPT ![c] =
                           IF metadata_payload.ok THEN begun
                           ELSE Finish(begun, Raise(metadata_payload.err))]
    /\ UNCHANGED <<facade, account, lastCtor, lastBuild, lastCoerce, svc, node, storage>>

\* The other mutating operations build their contract function from the
\* arguments, which fails when an argument cannot be coerced, and then go
\* straight to _send_transaction.
SendOps ==
    {"set_agent_uri", "set_metadata", "approve", "set_approval_for_all",
     "give_feedback", "append_response", "revoke_feedback"}

MutatingOps == RegisterOps \cup SendOps

\* The first failure among the argument coercions, in evaluation order.
FirstFailure(outcomes) ==
    IF \A i \in DOMAIN outcomes : outcomes[i].ok THEN Ok(<<>>)
    ELSE LET i == CHOOSE j \in DOMAIN outcomes :
                      ~outcomes[j].ok /\ \A k \in 1..(j - 1) : outcomes[k].ok
         IN  Raise(outcomes[i].err)

BeginSend(call, op, given, contract_fn) ==
    LET begun == [IdleCall EXCEPT !.n = call.n + 1, !.op = op, !.given = given,
                                  !.args = Forward(op, given),
                                  !.began = Len(node.accepted)]
    IN  IF contract_fn.ok THEN [begun EXCEPT !.pc = "nonce", !.fn = contract_fn.val]
        ELSE Finish(begun, Raise(contract_fn.err))

\* Arguments of the callers.
AddressArgs == {PyStr(Hex40(50)), PyStr(Prefix0x \o <<49, 50, 51, 52>>)}
ValueBytesArgs == {PyStr(Prefix0x \o <<49, 50, 51, 52>>), PyStr(Prefix0x \o <<122, 122>>), PyInt(5)}
Bytes32Args == {PyStr(<<116, 97, 103>>), PyBytes(Rep(1, 33))}
FeedbackAuthArgs ==
    {PyBytes(<<1, 2, 3>>), PyNone}
    \cup {PyBytes(encoded(p)) : p \in BuiltPayloads}
    \cup {PyStr(hex(p)) : p \in BuiltPayloads}

\* Variant of GiveFeedbackFn that pads the authorization with zero bytes to
\* whole 32-byte words, as it does the bytes32 arguments.
GiveFeedbackFn_AuthPadded(args) ==
    LET coerced == <<_coerce_bytes32(args.tag1), _coerce_bytes32(args.tag2),
                     _coerce_bytes32(args.feedback_hash),
                     _to_bytes_general(args.feedback_auth)>>
        failure == FirstFailure(coerced)
    IN  IF ~failure.ok THEN failure
        ELSE Ok(<<args.agent_id, args.score, coerced[1].val, coerced[2].val,
                  args.feedback_uri, coerced[3].val,
                  ljust(coerced[4].val,
                        Bytes32Width * ((Len(coerced[4].val) + Bytes32Width - 1) \div Bytes32Width),
                        0)>>)

\* give_feedback: the positional arguments of contract.functions.giveFeedback,
\* coerced in the order they are written.
GiveFeedbackFn(args) ==
    LET coerced == <<_coerce_bytes32(args.tag1), _coerce_bytes32(args.tag2),
                     _coerce_bytes32(args.feedback_hash),
                     _to_bytes_general(args.feedback_auth)>>
        failure == FirstFailure(coerced)
    IN  IF ~failure.ok THEN failure
        ELSE Ok(<<args.agent_id, args.score, coerced[1].val, coerced[2].val,
                  args.feedback_uri, coerced[3].val, coerced[4].val>>)

\* append_response: the positional arguments of contract.functions.appendResponse.
AppendResponseFn(args) ==
    LET coerced == <<to_checksum_address(args.client_address),
                     _coerce_bytes32(args.response_hash)>>
        failure == FirstFailure(coerced)
    IN  IF ~failure.ok THEN failure
        ELSE Ok(<<args.agent_id, coerced[1].val, args.feedback_index,
                  args.response_uri, coerced[2].val>>)

StartSetAgentUri(c) ==
    /\ CanStart(c)
    /\ \E u \in TokenUris, g \in GasLimits, v \in Values :
          calls' = [calls EXCEPT ![c] =
              BeginSend(@, "set_agent_uri",
                        [NoArgs EXCEPT !.token_uri = u, !.gas_limit = g, !.value = v],
                        Ok(<<>>))]
    /\ UNCHANGED <<facade, account, lastCtor, lastBuild, lastCoerce, svc, node, storage>>

StartSetMetadata(c) ==
    /\ CanStart(c)
    /\ \E value_bytes \in ValueBytesArgs, g \in GasLimits, v \in Values :
          calls' = [calls EXCEPT ![c] =
              BeginSend(@, "set_metadata", [NoArgs EXCEPT !.gas_limit = g, !.value = v],
                        _to_bytes_general(value_bytes))]
    /\ UNCHANGED <<facade, account, lastCtor, lastBuild, lastCoerce, svc, node, storage>>

StartApprove(c) ==
    /\ CanStart(c)
    /\ \E to_address \in AddressArgs, g \in GasLimits, v \in Values :
          calls' = [calls EXCEPT ![c] =
              BeginSend(@, "approve", [NoArgs EXCEPT !.gas_limit = g, !.value = v],
                        to_checksum_address(to_address))]
    /\ UNCHANGED <<facade, account, lastCtor, lastBuild, lastCoerce, svc, node, storage>>

StartSetApprovalForAll(c) ==
    /\ CanStart(c)
    /\ \E operator \in AddressArgs, g \in GasLimits, v \in Values :
          calls' = [calls EXCEPT ![c] =
              BeginSend(@, "set_approval_for_all", [NoArgs EXCEPT !.gas_limit = g, !.value = v],
                        to_checksum_address(operator))]
    /\ UNCHANGED <<facade, account, lastCtor, lastBuild, lastCoerce, svc, node, storage>>

StartGiveFeedback(c) ==
    /\ CanStart(c)
    /\ \E tag1 \in Bytes32Args, feedback_hash \in Bytes32Args,
          feedback_auth \in FeedbackAuthArgs, g \in GasLimits, v \in Values :
          LET given == [agent_id |-> 1, score |-> 90, tag1 |-> tag1, tag2 |-> PyStr(<<>>),
                        feedback_uri |-> <<>>, feedback_hash |-> feedback_hash,
                        feedback_auth |-> feedback_auth, gas_limit |-> g, value |-> v]
          IN  calls' = [calls EXCEPT ![c] =
                  BeginSend(@, "give_feedback", given,
                            GiveFeedbackFn(Forward("give_feedback", given)))]
    /\ UNCHANGED <<facade, account, lastCtor, lastBuild, lastCoerce, svc, node, storage>>

StartAppendResponse(c) ==
    /\ CanStart(c)
    /\ \E client_address \in AddressArgs, response_hash \in Bytes32Args,
          g \in GasLimits, v \in Values :
          LET given == [agent_id |-> 1, client_address |-> client_address,
                        feedback_index |-> 1, response_uri |-> <<>>,
                        response_hash |-> response_hash, gas_limit |-> g, value |-> v]
          IN  calls' = [calls EXCEPT ![c] =
                  BeginSend(@, "append_response", given,
                            AppendResponseFn(Forward("append_response", given)))]
    /\ UNCHANGED <<facade, account, lastCtor, lastBuild, lastCoerce, svc, node, storage>>

StartRevokeFeedback(c) ==
    /\ CanStart(c)
    /\ \E g \in GasLimits, v \in Values :
          calls' = [calls EXCEPT ![c] =
              BeginSend(@, "revoke_feedback", [NoArgs EXCEPT !.gas_limit = g, !.value = v],
                        Ok(<<>>))]
    /\ UNCHANGED <<facade, account, lastCtor, lastBuild, lastCoerce, svc, node, storage>>

\* The attributes an instance of ReputationRegistryService has: the methods
\* and properties of the class and of BaseContractService, and the
\* attributes __init__ assigns.
ReputationRegistryService ==
    {"give_feedback", "append_response", "revoke_feedback", "_coerce_bytes32",
     "web3", "contract", "as_dict", "_build_tx_params", "_send_transaction",
     "_config", "_web3", "_contract", "_account", "_default_account"}

\* Attribute lookup on an instance of a class.
getattr(class, name) == IF name \in class THEN Ok(name) ELSE Raise("AttributeError")

\* ERC8004Client.get_last_index(agent_id, client_address):
\* `self._reputation_registry_service.get_last_index(agent_id, client_address)`.
\* The service has no such attribute, so the lookup raises before anything
\* is called.
GetLastIndex(c) ==
    /\ CanStart(c)
    /\ \E agent_id \in {1, 7}, client_address \in AddressArgs :
          LET method == getattr(ReputationRegistryService, "get_last_index")
              given == [agent_id |-> agent_id, client_address |-> client_address]
              begun == [IdleCall EXCEPT !.n = calls[c].n + 1, !.op = "get_last_index",
                                        !.given = given, !.args = given,
                                        !.began = Len(node.accepted)]
          IN  /\ ~method.ok
              /\ calls' = [calls EXCEPT ![c] = Finish(begun, Raise(method.err))]
    /\ UNCHANGED <<facade, account, lastCtor, lastBuild, lastCoerce, svc, node, storage>>

\* Variant of _simulate_agent_id that never recovers an identifier.
_simulate_agent_id_AlwaysNone(answer) ==
    IF answer.ok \/ answer.err = "ContractLogicError" THEN Ok(PyNone) ELSE Raise(answer.err)

\* _simulate_agent_id: the integer the call returns, None when it returns
\* None or reverts (ContractLogicError); any other exception leaves it.
_simulate_agent_id(answer) ==
    IF answer.ok
    THEN (IF answer.val # PyNone THEN Ok(answer.val) ELSE Ok(PyNone))
    ELSE IF answer.err = "ContractLogicError" THEN Ok(PyNone)
    ELSE Raise(answer.err)

\* contract_fn.call({"from": ..., "value": ...}) and what register does with it.
Simulate(c) ==
    /\ calls[c].pc = "simulate"
    /\ \E answer \in {Ok(i) : i \in SimulatedIds} \cup {Raise(e) : e \in RpcErrors} :
          LET called == [Rpc(calls[c], "call") EXCEPT !.simulated = answer]
              agent_id == _simulate_agent_id(answer)
          IN  calls' = [calls EXCEPT ![c] =
                           IF agent_id.ok
                           THEN [called EXCEPT !.agent_id = agent_id.val, !.pc = "nonce"]
                           ELSE Finish(called, Raise(agent_id.err))]
    /\ UNCHANGED <<facade, account, lastCtor, lastBuild, lastCoerce, svc, node, storage>>

\* _send_transaction's except clauses around _build_tx_params and
\* build_transaction: ContractLogicError and ValueError become
\* ContractInteractionError, anything else leaves as it is.
TxBuildError(e) ==
    IF e \in {"ContractLogicError", "ValueError"} THEN "ContractInteractionError" ELSE e

\* The fixed gas limit used when the estimate reverts.
DefaultGas == 200000

\* web3.eth.get_transaction_count(address, block_identifier): the sender's
\* transactions in mined blocks, with the pending ones when asked for
\* "pending".  No block is mined while the operations run.
get_transaction_count(n, block_identifier) ==
    IF block_identifier = "pending" THEN n.pending ELSE n.mined

\* Variant of NonceRead that asks for the count of the latest block.
NonceRead_Latest(n) == get_transaction_count(n, "latest")

\* _build_tx_params: the nonce is the pending count at the time of the call.
NonceRead(n) == get_transaction_count(n, "pending")

\* _build_tx_params: web3.eth.get_transaction_count(from_address, "pending")
GetTransactionCount(c) ==
    /\ calls[c].pc = "nonce"
    /\ \E answer \in {Ok(NonceRead(node))} \cup {Raise(e) : e \in RpcErrors} :
          LET called == Rpc(calls[c], "get_transaction_count")
          IN  calls' = [calls EXCEPT ![c] =
                   IF answer.ok
                   THEN [called EXCEPT !.pc = "fee",
                            !.tx_params = [from |-> svc.default_account, nonce |-> answer.val,
                                           value |-> calls[c].args.value]]
                   ELSE Finish(called, Raise(TxBuildError(answer.err)))]
    /\ UNCHANGED <<facade, account, lastCtor, lastBuild, lastCoerce, svc, node, storage>>

\* Variant of FeeParams that takes the first base fee and does not double
\* the priority fee.
FeeParams_FirstBaseFee(fee_history) ==
    IF Len(fee_history.reward) = 0 \/ Len(fee_history.baseFeePerGas) = 0
    THEN Raise("IndexError")
    ELSE Ok([maxFeePerGas |-> fee_history.baseFeePerGas[1] + fee_history.reward[1][1],
             maxPriorityFeePerGas |-> fee_history.reward[1][1]])

\* _build_tx_params: the fee fields computed from a fee_history answer:
\* reward[0][0] as priority fee, baseFeePerGas[-1] + 2 * priority fee as
\* maximum fee.  An answer without them raises inside the try block.
FeeParams(fee_history) ==
    IF Len(fee_history.reward) = 0 \/ Len(fee_history.baseFeePerGas) = 0
    THEN Raise("IndexError")
    ELSE IF Len(fee_history.reward[1]) = 0 THEN Raise("IndexError")
    ELSE LET max_priority_fee == fee_history.reward[1][1]
             base_fee == fee_history.baseFeePerGas[Len(fee_history.baseFeePerGas)]
         IN  Ok([maxFeePerGas |-> base_fee + max_priority_fee * 2,
                 maxPriorityFeePerGas |-> max_priority_fee])

\* _build_tx_params: the fee strategy.  Any exception of the try block, of
\* the RPC or of reading its answer, is caught and web3.eth.gas_price is
\* asked instead; an exception of gas_price leaves _build_tx_params.
FeeHistory(c) ==
    /\ calls[c].pc = "fee"
    /\ \E answer \in {Ok(fh) : fh \in FeeHistories} \cup {Raise(e) : e \in RpcErrors} :
          LET asked == [Rpc(calls[c], "fee_history") EXCEPT !.fee_history = answer]
              fees == IF answer.ok THEN FeeParams(answer.val) ELSE Raise(answer.err)
          IN  IF fees.ok
              THEN calls' = [calls EXCEPT ![c] =
                       [asked EXCEPT !.pc = "gas", !.tx_params = @ @@ fees.val]]
              ELSE \E price \in {Ok(g) : g \in GasPrices} \cup {Raise(e) : e \in RpcErrors} :
                       LET called == [Rpc(asked, "gas_price") EXCEPT !.gas_price = price]
                       IN  calls' = [calls EXCEPT ![c] =
                               IF price.ok
                               THEN [called EXCEPT !.pc = "gas",
                                                   !.tx_params = @ @@ [gasPrice |-> price.val]]
                               ELSE Finish(called, Raise(TxBuildError(price.err)))]
    /\ UNCHANGED <<facade, account, lastCtor, lastBuild, lastCoerce, svc, node, storage>>

\* _build_tx_params: the gas limit.  The caller's when positive, else
\* contract_fn.estimate_gas, and DefaultGas when that reverts.
EstimateGas(c) ==
    /\ calls[c].pc = "gas"
    /\ IF calls[c].args.gas_limit > 0
       THEN calls' = [calls EXCEPT ![c] =
                [@ EXCEPT !.pc = "build",
                          !.tx_params = @ @@ [gas |-> calls[c].args.gas_limit]]]
       ELSE \E answer \in {Ok(g) : g \in GasEstimates} \cup {Raise(e) : e \in RpcErrors} :
                LET called == [Rpc(calls[c], "estimate_gas") EXCEPT !.estimate = answer]
                IN  calls' = [calls EXCEPT ![c] =
                        IF answer.ok
                        THEN [called EXCEPT !.pc = "build",
                                            !.tx_params = @ @@ [gas |-> answer.val]]
                        ELSE IF answer.err = "ContractLogicError"
                        THEN [called EXCEPT !.pc = "build",
                                            !.tx_params = @ @@ [gas |-> DefaultGas]]
                        ELSE Finish(called, Raise(TxBuildError(answer.err)))]
    /\ UNCHANGED <<facade, account, lastCtor, lastBuild, lastCoerce, svc, node, storage>>

\* _send_transaction: contract_fn.build_transaction(tx_params)
BuildTransaction(c) ==
    /\ calls[c].pc = "build"
    /\ \E answer \in {Ok(<<>>)} \cup {Raise(e) : e \in RpcErrors} :
          LET called == [Rpc(calls[c], "build_transaction") EXCEPT !.built = answer]
          IN  calls' = [calls EXCEPT ![c] =
                  IF answer.ok THEN [called EXCEPT !.pc = "send"]
                  ELSE Finish(called, Raise(TxBuildError(answer.err)))]
    /\ UNCHANGED <<facade, account, lastCtor, lastBuild, lastCoerce, svc, node, storage>>

\* tx_hash.hex(), with or without the prefix (it depends on the version of
\* hexbytes), and the prefix added when it is missing.
TxHex(tx_hash, prefixed) ==
    LET tx_hex == IF prefixed THEN Prefix0x \o Hexlify(tx_hash) ELSE Hexlify(tx_hash)
    IN  IF ~StartsWith(tx_hex, Prefix0x) THEN Prefix0x \o tx_hex ELSE tx_hex

\* What the operation returns once the transaction is submitted.
Returned(call, tx_hex) ==
    IF call.op \in RegisterOps
    THEN Ok([tx_hash |-> tx_hex, agent_id |-> call.agent_id])
    ELSE Ok(tx_hex)

\* Variant of SubmitPath that always hands the transaction to the node.
SubmitPath_AlwaysNode(service) == "send_transaction"

\* _send_transaction: `if self._account:` chooses the submission.
SubmitPath(service) ==
    IF service.account # NoAccount THEN "send_raw_transaction" ELSE "send_transaction"

\* The node takes a transaction: it is one more pending transaction of the
\* sender when it carries the next nonce, and replaces the pending one with
\* the same nonce otherwise.
Accept(n, tx) ==
    [pending |-> IF tx.nonce = n.pending THEN n.pending + 1 ELSE n.pending,
     mined |-> n.mined,
     accepted |-> Append(n.accepted, tx)]

\* _send_transaction: sign locally and send_raw_transaction when a private
\* key is configured, else send_transaction.  sign_transaction refuses a
\* transaction whose "from" is not the key's address (TypeError).  An error
\* of the submission leaves as it is.
SendTransaction(c) ==
    /\ calls[c].pc = "send"
    /\ LET path == SubmitPath(svc)
           signed == IF path = "send_raw_transaction"
                     THEN Rpc(calls[c], "sign_transaction") ELSE calls[c]
       IN  IF path = "send_raw_transaction" /\ calls[c].tx_params.from # svc.account.address
           THEN /\ calls' = [calls EXCEPT ![c] = Finish(signed, Raise("TypeError"))]
                /\ node' = node
           ELSE \/ \E tx_hash \in TxHashes, prefixed \in BOOLEAN :
                      /\ calls' = [calls EXCEPT ![c] =
                             Finish(Rpc(signed, path), Returned(@, TxHex(tx_hash, prefixed)))]
                      /\ node' = Accept(node, [sender |-> calls[c].tx_params.from,
                                               nonce |-> calls[c].tx_params.nonce,
                                               caller |-> c, n |-> calls[c].n,
                                               began |-> calls[c].began])
                \/ \E e \in {"ValueError", "ConnectionError"} :
                      /\ calls' = [calls EXCEPT ![c] = Finish(Rpc(signed, path), Raise(e))]
                      /\ node' = node
    /\ UNCHANGED <<facade, account, lastCtor, lastBuild, lastCoerce, svc, storage>>

\* Receipts the node returns: the Registered events that process_receipt
\* decodes from it (the arguments of each), or logs it cannot decode.
Receipts ==
    {[logs |-> Ok(<<[agentId |-> 7]>>)],
     [logs |-> Ok(<<[agentId |-> 7], [agentId |-> 9]>>)],
     [logs |-> Ok(<<[owner |-> 1]>>)],
     [logs |-> Ok(<<>>)],
     [logs |-> Raise("LogTopicError")]}

\* web3.eth.wait_for_transaction_receipt(tx_hash, timeout=timeout) returns a
\* receipt or raises: TimeExhausted when the timeout passes without one,
\* TransactionNotFound, or an error of the connection.
WaitErrors == {"TimeExhausted", "TransactionNotFound", "ConnectionError"}
Timeouts == {1, 120}

\* Variant of _decode_registration_receipt that reads the last event.
_decode_registration_receipt_LastEvent(receipt) ==
    LET decoded_logs == receipt.logs
    IN  IF ~decoded_logs.ok
        THEN [raw_receipt |-> receipt, agent_id |-> PyNone, events |-> <<>>]
        ELSE [raw_receipt |-> receipt,
              agent_id |-> IF Len(decoded_logs.val) > 0
                              /\ "agentId" \in DOMAIN decoded_logs.val[Len(decoded_logs.val)]
                           THEN PyInt(decoded_logs.val[Len(decoded_logs.val)].agentId)
                           ELSE PyNone,
              events |-> decoded_logs.val]

\* _decode_registration_receipt: the events and the agentId of the first
\* one; any exception while decoding leaves no events and no agentId.
_decode_registration_receipt(receipt) ==
    LET decoded_logs == receipt.logs
    IN  IF ~decoded_logs.ok
        THEN [raw_receipt |-> receipt, agent_id |-> PyNone, events |-> <<>>]
        ELSE [raw_receipt |-> receipt,
              agent_id |-> IF Len(decoded_logs.val) > 0
                              /\ "agentId" \in DOMAIN decoded_logs.val[1]
                           THEN PyInt(decoded_logs.val[1].agentId) ELSE PyNone,
              events |-> decoded_logs.val]

\* wait_for_receipt: only TransactionNotFound is translated.
ReceiptError(e) == IF e = "TransactionNotFound" THEN "ContractInteractionError" ELSE e

StartWaitForReceipt(c) ==
    /\ CanStart(c)
    /\ \E tx_hash \in TxHashes, timeout \in Timeouts :
          calls' = [calls EXCEPT ![c] =
              [IdleCall EXCEPT !.n = calls[c].n + 1, !.op = "wait_for_receipt",
                               !.args = [tx_hash |-> TxHex(tx_hash, TRUE), timeout |-> timeout],
                               !.began = Len(node.accepted), !.pc = "wait"]]
    /\ UNCHANGED <<facade, account, lastCtor, lastBuild, lastCoerce, svc, node, storage>>

\* The wait ends, when the receipt is there or the timeout has passed.
WaitForTransactionReceipt(c) ==
    /\ calls[c].pc = "wait"
    /\ \E answer \in {Ok(r) : r \in Receipts} \cup {Raise(e) : e \in WaitErrors} :
          LET waited == [Rpc(calls[c], "wait_for_transaction_receipt") EXCEPT !.receipt = answer]
          IN  calls' = [calls EXCEPT ![c] =
                  IF answer.ok
                  THEN Finish(waited, Ok(_decode_registration_receipt(answer.val)))
                  ELSE Finish(waited, Raise(ReceiptError(answer.err)))]
    /\ UNCHANGED <<facade, account, lastCtor, lastBuild, lastCoerce, svc, node, storage>>

\* The caller has the outcome and may start its next operation.
Return(c) ==
    /\ calls[c].pc = "done"
    /\ calls' = [calls EXCEPT ![c] = [IdleCall EXCEPT !.n = calls[c].n]]
    /\ UNCHANGED <<facade, account, lastCtor, lastBuild, lastCoerce, svc, node, storage>>

----------------------------------------------------------------------------
(* storage.py: IPFSStorage.  A store operation prepares the content, posts  *)
(* it to the pinning service when one is configured, and to the primary     *)
(* store (the IPFS node) otherwise or when the pinning service failed.      *)

Text_ipfs == <<105, 112, 102, 115, 58, 47, 47>>
Cid == <<81, 109, 84>>

\* IPFSStorage(ipfs_gateway=..., api_key=...): with and without each.
StorageConfigs ==
    {[ipfs_gateway |-> g, api_key |-> k] :
        g \in {PyNone, PyStr(<<103, 119>>)}, k \in {PyNone, PyStr(<<107>>)}}

\* What requests.post meets: no connection (status 0), an error status, or a
\* 2xx answer whose body is not JSON, is JSON but not an object, or is an
\* object with or without a content identifier under either key.
JsonObjects ==
    {[Hash |-> PyStr(Cid)], [IpfsHash |-> PyStr(Cid)], [Hash |-> PyStr(<<>>)],
     [IpfsHash |-> PyNone], [Name |-> PyStr(<<100>>)]}

HttpAnswers ==
    {[status |-> 0, body |-> Raise("")], [status |-> 500, body |-> Raise("")],
     [status |-> 200, body |-> Raise("JSONDecodeError")],
     [status |-> 200, body |-> Ok([kind |-> "array", fields |-> <<>>])]}
    \cup {[status |-> 200, body |-> Ok([kind |-> "object", fields |-> o])] : o \in JsonObjects}

\* The body of _store_via_local_node / _store_via_pinning_service after the
\* post: RequestException (no connection, raise_for_status) and ValueError
\* (response.json()) become IPFSStorageError, a missing or empty identifier
\* raises it; result.get on a body that is not an object raises
\* AttributeError, which no clause catches.
StoreResponse(answer, key) ==
    IF answer.status = 0 THEN Raise("IPFSStorageError")
    ELSE IF answer.status >= 400 THEN Raise("IPFSStorageError")
    ELSE IF ~answer.body.ok THEN Raise("IPFSStorageError")
    ELSE IF answer.body.val.kind # "object" THEN Raise("AttributeError")
    ELSE LET result == answer.body.val.fields
             cid == IF key \in DOMAIN result THEN result[key] ELSE PyNone
         IN  IF ~Truthy(cid) THEN Raise("IPFSStorageError")
             ELSE Ok(Text_ipfs \o cid.v)

\* store_file_content: `if self.ipfs_gateway and self.api_key`.
PinningConfigured(cfg) == Truthy(cfg.ipfs_gateway) /\ Truthy(cfg.api_key)

\* The except clauses of the operation around store_file_content: store_json
\* (and store_agent_profile through it) reports TypeError and ValueError as
\* IPFSStorageError, store_file reports IOError so.
StoreError(op, e) ==
    IF op \in {"store_json", "store_agent_profile"} /\ e \in {"TypeError", "ValueError"}
    THEN "IPFSStorageError"
    ELSE IF op = "store_file" /\ e = "IOError" THEN "IPFSStorageError"
    ELSE e

\* Variant of AfterPinning that posts to the pinning service a second time
\* before it falls back.
AfterPinning_Retry(st, outcome) ==
    IF outcome.ok THEN [st EXCEPT !.pc = "done", !.result = outcome]
    ELSE IF outcome.err = "IPFSStorageError"
    THEN [st EXCEPT !.pc = IF Len(st.posts) < 2 THEN "pinning" ELSE "local"]
    ELSE [st EXCEPT !.pc = "done", !.result = Raise(StoreError(st.op, outcome.err))]

\* store_file_content after the pinning attempt: its reference is returned;
\* IPFSStorageError is passed over and the primary store is used; any other
\* exception leaves store_file_content.
AfterPinning(st, outcome) ==
    IF outcome.ok THEN [st EXCEPT !.pc = "done", !.result = outcome]
    ELSE IF outcome.err = "IPFSStorageError" THEN [st EXCEPT !.pc = "local"]
    ELSE [st EXCEPT !.pc = "done", !.result = Raise(StoreError(st.op, outcome.err))]

\* Entry of a store operation: `prepared` is the outcome of what it does
\* before store_file_content (serialising, reading the file).
BeginStore(cfg, op, input, prepared) ==
    LET begun == [NoStorage EXCEPT !.cfg = cfg, !.op = op, !.input = input]
    IN  IF ~prepared.ok THEN [begun EXCEPT !.pc = "done", !.result = prepared]
        ELSE [begun EXCEPT !.pc = IF PinningConfigured(cfg) THEN "pinning" ELSE "local"]

\* A store operation starts when no other operation of the client runs.
CanStore == storage = NoStorage /\ \A c \in DOMAIN calls : calls[c].pc = "idle"

\* json.dumps of the document: TypeError for a member that is not serialisable.
Documents == {"serializable", "non_serializable"}
json_dumps(data) == IF data = "serializable" THEN Ok(<<123, 125>>) ELSE Raise("TypeError")

\* Paths given to store_file: no such file, a readable file, a directory.
Paths == {"missing", "file", "directory"}

\* What a store operation does before store_file_content: store_json (and
\* store_agent_profile through it) serialises the document; store_file
\* refuses a missing path and reads the file, which may fail with IOError.
Prepare(op, input) ==
    IF op = "store_file"
    THEN (IF input = "missing" THEN Raise("IPFSStorageError")
          ELSE IF input = "directory" THEN Raise(StoreError("store_file", "IOError"))
          ELSE Ok(<<1, 2>>))
    ELSE LET json_bytes == json_dumps(input)
         IN  IF json_bytes.ok THEN json_bytes ELSE Raise(StoreError(op, json_bytes.err))

StartStoreJson ==
    /\ CanStore
    /\ \E cfg \in StorageConfigs, data \in Documents :
          storage' = BeginStore(cfg, "store_json", data, Prepare("store_json", data))
    /\ UNCHANGED <<facade, account, lastCtor, lastBuild, lastCoerce, svc, node, calls>>

\* store_agent_profile: store_json(profile.to_dict()).
StartStoreAgentProfile ==
    /\ CanStore
    /\ \E cfg \in StorageConfigs, profile \in Documents :
          storage' = BeginStore(cfg, "store_agent_profile", profile,
                                Prepare("store_agent_profile", profile))
    /\ UNCHANGED <<facade, account, lastCtor, lastBuild, lastCoerce, svc, node, calls>>

\* store_file: a missing path is refused; reading may fail with IOError.
StartStoreFile ==
    /\ CanStore
    /\ \E cfg \in StorageConfigs, file_path \in Paths :
          storage' = BeginStore(cfg, "store_file", file_path, Prepare("store_file", file_path))
    /\ UNCHANGED <<facade, account, lastCtor, lastBuild, lastCoerce, svc, node, calls>>

StartStoreFileContent ==
    /\ CanStore
    /\ \E cfg \in StorageConfigs :
          storage' = BeginStore(cfg, "store_file_content", "bytes", Ok(<<1, 2>>))
    /\ UNCHANGED <<facade, account, lastCtor, lastBuild, lastCoerce, svc, node, calls>>

\* _store_via_pinning_service: one post to <gateway>/pinning/pinFileToIPFS.
PostToPinningService ==
    /\ storage.pc = "pinning"
    /\ \E answer \in HttpAnswers :
          LET posted == [storage EXCEPT !.posts = Append(@, "pinning"), !.pinning = Ok(answer)]
          IN  storage' = AfterPinning(posted, StoreResponse(answer, "IpfsHash"))
    /\ UNCHANGED <<facade, account, lastCtor, lastBuild, lastCoerce, svc, node, calls>>

\* _store_via_local_node: one post to <ipfs_url>/api/v0/add.
PostToLocalNode ==
    /\ storage.pc = "local"
    /\ \E answer \in HttpAnswers :
          LET posted == [storage EXCEPT !.posts = Append(@, "primary"), !.answer = Ok(answer)]
              outcome == StoreResponse(answer, "Hash")
          IN  storage' = [posted EXCEPT !.pc = "done",
                              !.result = IF outcome.ok THEN outcome
                                         ELSE Raise(StoreError(storage.op, outcome.err))]
    /\ UNCHANGED <<facade, account, lastCtor, lastBuild, lastCoerce, svc, node, calls>>

\* The caller has the outcome of the store operation.
StoreReturn ==
    /\ storage.pc = "done"
    /\ storage' = NoStorage
    /\ UNCHANGED <<facade, account, lastCtor, lastBuild, lastCoerce, svc, node, calls>>

Init ==
    /\ account = NoAccount
    /\ lastCtor = NoCtor
    /\ lastBuild = NoBuild
    /\ lastCoerce = NoCoerce
    /\ svc \in Services
    /\ node = NoNode
    /\ calls = [c \in Callers |-> IdleCall]
    /\ storage = NoStorage
    /\ facade = NoClient

Next ==
    \/ StartStoreJson
    \/ StartStoreAgentProfile
    \/ StartStoreFile
    \/ StartStoreFileContent
    \/ PostToPinningService
    \/ PostToLocalNode
    \/ StoreReturn
    \/ \E c \in Callers :
            \/ StartRegisterMinimal(c)
            \/ StartRegisterWithUri(c)
            \/ StartRegisterAgent(c)
            \/ StartSetAgentUri(c)
            \/ StartSetMetadata(c)
            \/ StartApprove(c)
            \/ StartSetApprovalForAll(c)
            \/ StartGiveFeedback(c)
            \/ StartAppendResponse(c)
            \/ StartRevokeFeedback(c)
            \/ Simulate(c)
            \/ GetTransactionCount(c)
            \/ FeeHistory(c)
            \/ EstimateGas(c)
            \/ BuildTransaction(c)
            \/ SendTransaction(c)
            \/ StartWaitForReceipt(c)
            \/ WaitForTransactionReceipt(c)
            \/ GetLastIndex(c)
            \/ Return(c)

Spec == Init /\ [][Next]_vars

\* Two threads calling one service: each runs mutating operations, and the
\* steps of the two interleave in any order.  The arguments do not bear on
\* the nonce: the callers pass a gas limit and send no value.
RaceCallers == {"c1", "c2"}

RaceInit ==
    /\ account = NoAccount
    /\ lastCtor = NoCtor
    /\ lastBuild = NoBuild
    /\ lastCoerce = NoCoerce
    /\ svc \in Services
    /\ node = NoNode
    /\ calls = [c \in RaceCallers |-> IdleCall]
    /\ storage = NoStorage
    /\ facade = NoClient

RaceNext ==
    \E c \in RaceCallers :
        \/ (StartRevokeFeedback(c)
               /\ calls'[c].given.gas_limit > 0 /\ calls'[c].given.value = 0)
        \/ GetTransactionCount(c)
        \/ FeeHistory(c)
        \/ EstimateGas(c)
        \/ BuildTransaction(c)
        \/ SendTransaction(c)
        \/ Return(c)

SpecRace == RaceInit /\ [][RaceNext]_vars

----------------------------------------------------------------------------
(* client.py: ERC8004Client.  The facade creates the two registry services, *)
(* holds an optional storage helper and an optional authorization builder,  *)
(* and hands each call to one of them.  A builder is known by its account.  *)

\* str.rstrip("/")
RECURSIVE rstrip(_)
rstrip(s) == IF s # <<>> /\ s[Len(s)] = 47 THEN rstrip(SubSeq(s, 1, Len(s) - 1)) ELSE s

\* IPFSStorage.__init__: the attributes store_file_content reads.
IPFSStorage(kwargs) ==
    [ipfs_gateway |-> IF Truthy(kwargs.ipfs_gateway) THEN PyStr(rstrip(kwargs.ipfs_gateway.v))
                      ELSE PyNone,
     api_key |-> kwargs.api_key]

\* Arguments of the constructor and of the configure methods.
ContractAddressArgs == {PyNone, PyStr(<<>>), PyStr(Hex40(49))}
AuthPrivateKeyArgs ==
    {PyNone, PyStr(<<>>), PyStr(Prefix0x \o Rep(50, 64)), PyStr(Prefix0x \o <<49, 50, 51, 52>>)}
AuthBuilderArgs == {PyNone, from_key(PyStr(Prefix0x \o Rep(51, 64))).val}
IpfsStorageArgs == {PyNone, IPFSStorage([ipfs_gateway |-> PyNone, api_key |-> PyNone])}
IpfsConfigArgs == {PyNone, [ipfs_gateway |-> PyStr(<<103, 119, 47>>), api_key |-> PyStr(<<107>>)]}

\* Variant of EffectiveAuthKey that prefers the client's private_key.
EffectiveAuthKey_PrefersPrivateKey(auth_private_key, private_key) ==
    IF Truthy(private_key) THEN private_key ELSE auth_private_key

\* __init__: `effective_auth_key = auth_private_key or private_key`
EffectiveAuthKey(auth_private_key, private_key) ==
    IF Truthy(auth_private_key) THEN auth_private_key ELSE private_key

\* __init__: `self._ipfs_storage = ipfs_storage or (IPFSStorage(**dict(ipfs_config))
\* if ipfs_config else None)` and the same shape for the builder.
HelpersOf(kw) ==
    LET effective_auth_key == EffectiveAuthKey(kw.auth_private_key, kw.private_key)
        made == IF kw.auth_builder # PyNone THEN Ok(kw.auth_builder)
                ELSE IF Truthy(effective_auth_key) THEN AuthFeedback(effective_auth_key)
                ELSE Ok(PyNone)
    IN  IF ~made.ok THEN Raise(made.err)
        ELSE Ok([ipfs_storage |-> IF kw.ipfs_storage # PyNone THEN kw.ipfs_storage
                                  ELSE IF kw.ipfs_config # PyNone THEN IPFSStorage(kw.ipfs_config)
                                  ELSE PyNone,
                 auth_builder |-> made.val])

\* The two registry services, created one after the other from the same
\* account settings; each creation tries the RPC connection once.
ServicesOf(kw, connected) ==
    LET config(contract_address) ==
            [contract_address |-> contract_address, default_account |-> kw.default_account,
             private_key |-> kw.private_key]
        identity == BaseContractService(config(kw.identity_contract_address), connected)
        reputation == BaseContractService(config(kw.reputation_contract_address), connected)
    IN  IF ~identity.ok THEN [connections |-> 1, result |-> Raise(identity.err)]
        ELSE IF ~reputation.ok THEN [connections |-> 2, result |-> Raise(reputation.err)]
        ELSE [connections |-> 2, result |-> HelpersOf(kw)]

\* Variant of ERC8004Client that looks at the reputation address after it
\* has created the identity service.
ERC8004Client_ChecksLate(kw, connected) ==
    IF ~Truthy(kw.identity_contract_address)
    THEN [connections |-> 0, result |-> Raise("ContractInteractionError")]
    ELSE IF ~Truthy(kw.reputation_contract_address)
    THEN [connections |-> 1, result |-> Raise("ContractInteractionError")]
    ELSE ServicesOf(kw, connected)

\* ERC8004Client.__init__: the outcome and how many connections were tried.
ERC8004Client(kw, connected) ==
    IF ~Truthy(kw.identity_contract_address)
    THEN [connections |-> 0, result |-> Raise("ContractInteractionError")]
    ELSE IF ~Truthy(kw.reputation_contract_address)
    THEN [connections |-> 0, result |-> Raise("ContractInteractionError")]
    ELSE ServicesOf(kw, connected)

\* client = ERC8004Client(rpc_url=..., ...)
NewClient ==
    /\ facade.pc = "none"
    /\ \E identity \in ContractAddressArgs, reputation \in ContractAddressArgs \ {PyNone},
          default_account \in {PyNone, PyStr(Hex40(51))},
          private_key \in {PyNone, PyStr(Prefix0x \o Rep(49, 64))},
          ipfs_storage \in IpfsStorageArgs, ipfs_config \in IpfsConfigArgs,
          auth_builder \in AuthBuilderArgs, auth_private_key \in AuthPrivateKeyArgs,
          connected \in BOOLEAN :
          LET kw == [identity_contract_address |-> identity,
                     reputation_contract_address |-> reputation,
                     default_account |-> default_account, private_key |-> private_key,
                     ipfs_storage |-> ipfs_storage, ipfs_config |-> ipfs_config,
                     auth_builder |-> auth_builder, auth_private_key |-> auth_private_key]
              made == ERC8004Client(kw, connected)
              called == [NoClient EXCEPT !.op = "__init__", !.given = kw,
                                         !.connections = made.connections,
                                         !.result = made.result]
          IN  facade' = IF made.result.ok
                        THEN [called EXCEPT !.pc = "done",
                                            !.ipfs_storage = made.result.val.ipfs_storage,
                                            !.auth_builder = made.result.val.auth_builder]
                        ELSE [called EXCEPT !.pc = "failed"]
    /\ UNCHANGED <<account, lastCtor, lastBuild, lastCoerce, svc, node, calls, storage>>

\* configure_auth_builder: the builder the client holds afterwards, or the
\* exception that leaves before anything is assigned.
configure_auth_builder(self, builder, private_key) ==
    IF builder # PyNone THEN Ok(builder)
    ELSE IF Truthy(private_key) THEN AuthFeedback(private_key)
    ELSE IF self.auth_builder = PyNone THEN Raise("SignatureError")
    ELSE Ok(self.auth_builder)

ConfigureAuthBuilder ==
    /\ facade.pc = "idle"
    /\ \E builder \in AuthBuilderArgs, private_key \in AuthPrivateKeyArgs :
          LET configured == configure_auth_builder(facade, builder, private_key)
              called == [facade EXCEPT !.pc = "done", !.op = "configure_auth_builder",
                             !.given = [builder |-> builder, private_key |-> private_key,
                                        before |-> facade.auth_builder],
                             !.result = configured]
          IN  facade' = IF configured.ok THEN [called EXCEPT !.auth_builder = configured.val]
                        ELSE called
    /\ UNCHANGED <<account, lastCtor, lastBuild, lastCoerce, svc, node, calls, storage>>

\* configure_ipfs_storage(storage=..., config=...)
configure_ipfs_storage(self, given_storage, config) ==
    IF given_storage # PyNone THEN Ok(given_storage)
    ELSE IF config # PyNone THEN Ok(IPFSStorage(config))
    ELSE IF self.ipfs_storage = PyNone THEN Raise("IPFSStorageError")
    ELSE Ok(self.ipfs_storage)

ConfigureIpfsStorage ==
    /\ facade.pc = "idle"
    /\ \E given_storage \in IpfsStorageArgs, config \in IpfsConfigArgs :
          LET configured == configure_ipfs_storage(facade, given_storage, config)
              called == [facade EXCEPT !.pc = "done", !.op = "configure_ipfs_storage",
                             !.given = [storage |-> given_storage, config |-> config,
                                        before |-> facade.ipfs_storage],
                             !.result = configured]
          IN  facade' = IF configured.ok THEN [called EXCEPT !.ipfs_storage = configured.val]
                        ELSE called
    /\ UNCHANGED <<account, lastCtor, lastBuild, lastCoerce, svc, node, calls, storage>>

\* Variant of _ensure_ipfs_storage that makes a default helper when none is
\* configured.
_ensure_ipfs_storage_Default(self) ==
    IF self.ipfs_storage = PyNone
    THEN Ok(IPFSStorage([ipfs_gateway |-> PyNone, api_key |-> PyNone]))
    ELSE Ok(self.ipfs_storage)

_ensure_ipfs_storage(self) ==
    IF self.ipfs_storage = PyNone THEN Raise("IPFSStorageError") ELSE Ok(self.ipfs_storage)

_ensure_auth_builder(self) ==
    IF self.auth_builder = PyNone THEN Raise("SignatureError") ELSE Ok(self.auth_builder)

StoreOps == {"store_agent_profile", "store_json", "store_file"}

\* store_agent_profile / store_json / store_file of the client:
\* `storage = self._ensure_ipfs_storage()`, then the helper's method of the
\* same name with the same arguments.
Delegate(op, input, pin) ==
    LET helper == _ensure_ipfs_storage(facade)
        called == [facade EXCEPT !.op = op, !.given = [input |-> input, pin |-> pin]]
    IN  IF ~helper.ok
        THEN /\ facade' = [called EXCEPT !.pc = "done", !.result = Raise(helper.err)]
             /\ storage' = storage
        ELSE /\ facade' = [called EXCEPT !.pc = "storing",
                                !.helper = [op |-> op, input |-> input, pin |-> pin]]
             /\ storage' = BeginStore(helper.val, op, input, Prepare(op, input))

ClientStoreAgentProfile ==
    /\ facade.pc = "idle" /\ storage = NoStorage
    /\ \E profile \in Documents, pin \in BOOLEAN : Delegate("store_agent_profile", profile, pin)
    /\ UNCHANGED <<account, lastCtor, lastBuild, lastCoerce, svc, node, calls>>

ClientStoreJson ==
    /\ facade.pc = "idle" /\ storage = NoStorage
    /\ \E data \in Documents, pin \in BOOLEAN : Delegate("store_json", data, pin)
    /\ UNCHANGED <<account, lastCtor, lastBuild, lastCoerce, svc, node, calls>>

ClientStoreFile ==
    /\ facade.pc = "idle" /\ storage = NoStorage
    /\ \E file_path \in Paths, pin \in BOOLEAN : Delegate("store_file", file_path, pin)
    /\ UNCHANGED <<account, lastCtor, lastBuild, lastCoerce, svc, node, calls>>

\* The helper's method returns or raises: the client's method does the same.
ClientStoreReturn ==
    /\ facade.pc = "storing"
    /\ storage.pc = "done"
    /\ facade' = [facade EXCEPT !.pc = "done", !.result = storage.result]
    /\ storage' = storage
    /\ UNCHANGED <<account, lastCtor, lastBuild, lastCoerce, svc, node, calls>>

\* Keyword arguments of build_feedback_auth; the client always passes
\* signer_address, None when the caller left it out.
FeedbackAuthKwargs ==
    {Kwargs(FieldNames, ints, client_address, PyStr(Hex40(50)), signer_address) :
        ints \in {<<123, 5, 1700003600, 1>>},
        client_address \in {PyStr(AddrLowerAB), PyStr(Prefix0x \o <<49, 50, 51, 52>>)},
        signer_address \in {PyNone, PyStr(Hex40(53))}}

\* build_feedback_auth: `builder = self._ensure_auth_builder()`, then
\* builder.build(...) with the same keyword arguments.
ClientBuildFeedbackAuth ==
    /\ facade.pc = "idle" /\ storage = NoStorage
    /\ \E kwargs \in FeedbackAuthKwargs, backend \in {"ok", "raises"} :
          LET builder == _ensure_auth_builder(facade)
              called == [facade EXCEPT !.pc = "done", !.op = "build_feedback_auth",
                                       !.given = [kwargs |-> kwargs, backend |-> backend]]
          IN  facade' = IF ~builder.ok THEN [called EXCEPT !.result = Raise(builder.err)]
                        ELSE [called EXCEPT
                                 !.helper = [op |-> "build", input |-> kwargs],
                                 !.result = build(builder.val, kwargs, backend)]
    /\ UNCHANGED <<account, lastCtor, lastBuild, lastCoerce, svc, node, calls, storage>>

\* The caller has the outcome; the helpers stay as they are.
ClientReturn ==
    /\ facade.pc = "done"
    /\ facade' = [NoClient EXCEPT !.pc = "idle", !.ipfs_storage = facade.ipfs_storage,
                                  !.auth_builder = facade.auth_builder]
    /\ storage' = NoStorage
    /\ UNCHANGED <<account, lastCtor, lastBuild, lastCoerce, svc, node, calls>>

ClientInit ==
    /\ account = NoAccount
    /\ lastCtor = NoCtor
    /\ lastBuild = NoBuild
    /\ lastCoerce = NoCoerce
    /\ svc = NoService
    /\ node = NoNode
    /\ calls = NoCalls
    /\ storage = NoStorage
    /\ facade = NoClient

ClientNext ==
    \/ NewClient
    \/ ConfigureAuthBuilder
    \/ ConfigureIpfsStorage
    \/ ClientStoreAgentProfile
    \/ ClientStoreJson
    \/ ClientStoreFile
    \/ PostToPinningService
    \/ PostToLocalNode
    \/ ClientStoreReturn
    \/ ClientBuildFeedbackAuth
    \/ ClientReturn

SpecClient == ClientInit /\ [][ClientNext]_vars

----------------------------------------------------------------------------
(* Properties of the signer *)

BuildReturned == lastBuild.called /\ lastBuild.result.ok
Payload == lastBuild.result.val
PayloadStruct == SubSeq(encoded(Payload), 1, 224)
PayloadSignature == SubSeq(encoded(Payload), 225, Len(encoded(Payload)))

\* Text that is an address: 40 hex digits after an optional 0x/0X prefix.
IsAddressText(x) ==
    /\ x.t = "str"
    /\ LET body == IF Len(x.v) >= 2 /\ x.v[1] = 48 /\ x.v[2] \in {120, 88}
                   THEN SubSeq(x.v, 3, Len(x.v)) ELSE x.v
       IN  Len(body) = 40 /\ \A i \in 1..40 : IsHexDigit(body[i])

\* The call of lastBuild has a valid field set.
ValidFields ==
    LET k == lastBuild.kwargs
    IN  /\ IsAddressText(Arg(k, "client_address", PyNone))
        /\ IsAddressText(Arg(k, "identity_registry", PyNone))
        /\ (HasArg(k, "signer_address") /\ Truthy(Arg(k, "signer_address", PyNone))
               => IsAddressText(Arg(k, "signer_address", PyNone)))
        /\ \A n \in {"agent_id", "index_limit", "expiry", "chain_id"} : Arg(k, n, 0) >= 0

\* C1: every payload build() returns has an encoded value of exactly 289
\* bytes, the 224-byte struct followed by a 65-byte signature; when the
\* signing backend yields a signature of another length, or raises, build()
\* on a valid field set ends with SignatureError and returns no payload.
C1_EncodedIs289Bytes ==
    /\ BuildReturned =>
          /\ Len(Payload.signature) = 65
          /\ Len(encoded(Payload)) = 289
          /\ PayloadSignature = Payload.signature
          /\ Len(hex(Payload)) = 2 + 2 * 289
    /\ lastBuild.called /\ ValidFields /\ lastBuild.backend # "ok" =>
          ~lastBuild.result.ok /\ lastBuild.result.err = "SignatureError"
    /\ lastBuild.called /\ ValidFields /\ lastBuild.backend = "ok" => lastBuild.result.ok

C1_Witness ==
    /\ BuildReturned
    /\ Len(encoded(Payload)) = 289
    /\ Arg(lastBuild.kwargs, "agent_id", 0) = 123

\* C2: when build() is called without signer_address, the trailing 65 bytes,
\* taken as a personal-message signature over the keccak digest of the
\* leading 224 bytes, recover the signer's own derived address, and that
\* address is the seventh encoded field.
C2_RecoversOwnAddress ==
    BuildReturned /\ ~HasArg(lastBuild.kwargs, "signer_address") =>
        /\ recover_message(keccak(PayloadStruct), PayloadSignature) = account.address
        /\ SubSeq(PayloadStruct, 193, 204) = Rep(0, 12)
        /\ SubSeq(PayloadStruct, 205, 224) = AddressBytes(account.address)

C2_Witness ==
    /\ BuildReturned
    /\ ~HasArg(lastBuild.kwargs, "signer_address")
    /\ recover_message(keccak(PayloadStruct), PayloadSignature) = account.address

\* An explicit signer_address that is another address than the signer's own.
OverriddenSigner ==
    /\ HasArg(lastBuild.kwargs, "signer_address")
    /\ IsAddressText(Arg(lastBuild.kwargs, "signer_address", PyNone))
    /\ AddressBytes(Arg(lastBuild.kwargs, "signer_address", PyNone).v)
          # AddressBytes(account.address)

GivenField(i) ==
    LET k == lastBuild.kwargs
        sa == Arg(k, "signer_address", PyNone)
    IN  CASE i = 7 -> (IF Truthy(sa) THEN sa.v ELSE account.address)
          [] i \in {2, 6} -> Arg(k, FieldNames[i], PyNone).v
          [] OTHER -> Arg(k, FieldNames[i], 0)

\* The 32-byte slot of a field, written out: an integer big-endian in the
\* last bytes, an address in the last 20 bytes, zeros before.
ExpectedSlot(i) ==
    IF ABI_TYPES[i] = "address"
    THEN [j \in 1..32 |-> IF j <= 12 THEN 0 ELSE AddressBytes(GivenField(i))[j - 12]]
    ELSE [j \in 1..32 |->
            CASE j = 32 -> GivenField(i) % 256
              [] j = 31 -> (GivenField(i) \div 256) % 256
              [] j = 30 -> (GivenField(i) \div 65536) % 256
              [] j = 29 -> (GivenField(i) \div 16777216) % 256
              [] OTHER -> 0]

\* C4: the struct is seven consecutive 32-byte slots holding agent_id,
\* client_address, index_limit, expiry, chain_id, identity_registry,
\* signer_address in that order, whatever the order of the keyword arguments;
\* decoding the leading 224 bytes gives back the values given to build(), and
\* encoding the decoded values again gives the same bytes.
C4_FixedOrderRoundTrip ==
    BuildReturned =>
        LET decoded == abi_decode(ABI_TYPES, PayloadStruct)
        IN  /\ Len(PayloadStruct) = 224
            /\ \A i \in 1..7 :
                  SubSeq(PayloadStruct, 32 * (i - 1) + 1, 32 * i) = ExpectedSlot(i)
            /\ \A i \in {1, 3, 4, 5} : decoded[i] = GivenField(i)
            /\ \A i \in {2, 6, 7} : AddressBytes(decoded[i]) = AddressBytes(GivenField(i))
            /\ abi_encode(ABI_TYPES, decoded) = PayloadStruct

C4_Witness ==
    /\ BuildReturned
    /\ lastBuild.kwargs[1][1] = "signer_address"
    /\ Arg(lastBuild.kwargs, "agent_id", 0) = 70000
    /\ abi_decode(ABI_TYPES, PayloadStruct)[3] = 300

\* C5 as stated: build() fails with a typed error of the SDK (a subclass of
\* SDKError) and returns no payload whenever client_address or
\* identity_registry is not a syntactically valid 20-byte address.
C5_InvalidAddressIsTypedError ==
    /\ lastBuild.called
    /\ \/ ~IsAddressText(Arg(lastBuild.kwargs, "client_address", PyNone))
       \/ ~IsAddressText(Arg(lastBuild.kwargs, "identity_registry", PyNone))
    => ~lastBuild.result.ok /\ lastBuild.result.err \in SDKErrors

\* The key decodes to exactly 32 bytes of hex.
IsSigningKey(x) ==
    /\ x.t = "str"
    /\ LET body == IF Len(x.v) >= 2 /\ x.v[1] = 48 /\ x.v[2] \in {120, 88}
                   THEN SubSeq(x.v, 3, Len(x.v)) ELSE x.v
       IN  /\ \A i \in 1..Len(body) : IsHexDigit(body[i])
           /\ (Len(body) + 1) \div 2 = 32

----------------------------------------------------------------------------
(* Properties of byte coercion and metadata normalisation *)

Coerced(op) == lastCoerce.called /\ lastCoerce.op = op

\* The text without its surrounding whitespace: the part between the first
\* and the last character that is not whitespace.
Trimmed(s) ==
    CHOOSE t \in {SubSeq(s, i, j) : i \in 1..(Len(s) + 1), j \in 0..Len(s)} :
        \E i \in 1..(Len(s) + 1), j \in 0..Len(s) :
            /\ t = SubSeq(s, i, j)
            /\ \A k \in 1..Len(s) : (k < i \/ k > j) => s[k] \in Whitespace
            /\ (i <= j => s[i] \notin Whitespace /\ s[j] \notin Whitespace)
            /\ (i > j => t = <<>>)

\* Reading UTF-8 bytes back as code points.
RECURSIVE Utf8Decode(_)
Utf8Decode(b) ==
    IF b = <<>> THEN <<>>
    ELSE IF b[1] < 128 THEN <<b[1]>> \o Utf8Decode(SubSeq(b, 2, Len(b)))
    ELSE IF b[1] < 224
         THEN <<(b[1] - 192) * 64 + (b[2] - 128)>> \o Utf8Decode(SubSeq(b, 3, Len(b)))
    ELSE <<(b[1] - 224) * 4096 + (b[2] - 128) * 64 + (b[3] - 128)>>
             \o Utf8Decode(SubSeq(b, 4, Len(b)))

\* The hex digits of a "0x" text, lower case, with a leading "0" when their
\* number is odd.
PaddedDigits(s) ==
    LET d == SubSeq(s, 3, Len(s))
    IN  LowerText(IF Len(d) % 2 = 1 THEN <<48>> \o d ELSE d)

\* C7 amended: byte coercion returns bytes unchanged; text is first trimmed of
\* surrounding whitespace; trimmed text that starts with "0x" is hex-decoded,
\* and fails with ContractInteractionError (the SDK's typed error) when the
\* rest is not hex digits; any other text gives the UTF-8 encoding of the
\* trimmed text; any other value fails with the same error.
C7_ByteCoercion ==
    Coerced("_to_bytes_general") =>
        LET x == lastCoerce.input
            r == lastCoerce.result
            t == Trimmed(x.v)
        IN  CASE x.t \in {"bytes", "bytearray"} -> r.ok /\ r.val = x.v
              [] x.t = "str" /\ StartsWith(t, <<48, 120>>) ->
                    IF \A i \in 3..Len(t) : IsHexDigit(t[i])
                    THEN r.ok /\ Hexlify(r.val) = PaddedDigits(t)
                    ELSE ~r.ok /\ r.err = "ContractInteractionError"
              [] x.t = "str" /\ ~StartsWith(t, <<48, 120>>) ->
                    r.ok /\ Utf8Decode(r.val) = t /\ \A i \in 1..Len(r.val) : r.val[i] \in 0..255
              [] OTHER -> ~r.ok /\ r.err = "ContractInteractionError"

\* C7 as stated: as above, except that text without the "0x" prefix gives the
\* UTF-8 encoding of the text itself, surrounding whitespace included.
C7_OtherTextIsEncodedWhole ==
    Coerced("_to_bytes_general") =>
        LET x == lastCoerce.input
            r == lastCoerce.result
            t == Trimmed(x.v)
        IN  CASE x.t \in {"bytes", "bytearray"} -> r.ok /\ r.val = x.v
              [] x.t = "str" /\ StartsWith(t, <<48, 120>>) ->
                    IF \A i \in 3..Len(t) : IsHexDigit(t[i])
                    THEN r.ok /\ Hexlify(r.val) = PaddedDigits(t)
                    ELSE ~r.ok /\ r.err = "ContractInteractionError"
              [] x.t = "str" /\ ~StartsWith(t, <<48, 120>>) ->
                    r.ok /\ Utf8Decode(r.val) = x.v
              [] OTHER -> ~r.ok /\ r.err = "ContractInteractionError"

C7_Witness ==
    /\ Coerced("_to_bytes_general")
    /\ lastCoerce.input = PyStr(<<9>> \o Prefix0x \o <<49, 50, 51, 52>> \o <<10>>)
    /\ lastCoerce.result.ok
    /\ lastCoerce.result.val = <<18, 52>>

\* C8: fixed-width coercion applies byte coercion, fails with
\* ContractInteractionError when the coerced value is longer than 32 bytes,
\* and otherwise returns exactly 32 bytes: the coerced value followed by
\* zero bytes.
C8_CoerceBytes32 ==
    Coerced("_coerce_bytes32") =>
        LET raw == _to_bytes_general(lastCoerce.input)
            r == lastCoerce.result
        IN  /\ ~raw.ok => ~r.ok /\ r.err = raw.err
            /\ raw.ok /\ Len(raw.val) > 32 => ~r.ok /\ r.err = "ContractInteractionError"
            /\ raw.ok /\ Len(raw.val) <= 32 =>
                  /\ r.ok
                  /\ Len(r.val) = 32
                  /\ \A i \in 1..32 :
                        r.val[i] = IF i <= Len(raw.val) THEN raw.val[i] ELSE 0

C8_Witness ==
    /\ Coerced("_coerce_bytes32")
    /\ lastCoerce.input = PyStr(<<104, 101, 108, 108, 111>>)
    /\ lastCoerce.result.ok
    /\ lastCoerce.result.val = <<104, 101, 108, 108, 111>> \o Rep(0, 27)

\* An entry the claim names as malformed: a mapping without key or value, a
\* key that is not text, a value that is neither text nor bytes.
MalformedEntry(e) ==
    \/ "key" \notin DOMAIN e.fields
    \/ "value" \notin DOMAIN e.fields
    \/ e.fields["key"].t # "str"
    \/ e.fields["value"].t \notin {"str", "bytes", "bytearray"}

\* C9: normalize_metadata_entries takes MetadataEntry objects and mappings
\* alike; a returned list has the length and order of the input, each item
\* {key: text, value: bytes} with the value converted by byte coercion
\* ("0x1234" becomes 12 34); with a malformed entry the call fails with
\* ContractInteractionError and returns no list.
C9_NormalizeMetadata ==
    Coerced("normalize_metadata_entries") =>
        LET md == lastCoerce.input
            r == lastCoerce.result
        IN  /\ (\E i \in 1..Len(md) : MalformedEntry(md[i])) =>
                  ~r.ok /\ r.err = "ContractInteractionError"
            /\ (\A i \in 1..Len(md) :
                    ~MalformedEntry(md[i]) /\ _to_bytes_general(md[i].fields["value"]).ok)
                  => r.ok
            /\ ~r.ok => r.err = "ContractInteractionError"
            /\ r.ok =>
                  /\ Len(r.val) = Len(md)
                  /\ \A i \in 1..Len(md) :
                        /\ DOMAIN r.val[i] = {"key", "value"}
                        /\ r.val[i].key = md[i].fields["key"].v
                        /\ r.val[i].value = _to_bytes_general(md[i].fields["value"]).val
                        /\ md[i].fields["value"] = PyStr(<<48, 120, 49, 50, 51, 52>>)
                              => r.val[i].value = <<18, 52>>

C9_Witness ==
    /\ Coerced("normalize_metadata_entries")
    /\ lastCoerce.result.ok
    /\ Len(lastCoerce.input) = 2
    /\ lastCoerce.input[1].shape = "MetadataEntry"
    /\ lastCoerce.input[2].shape = "mapping"
    /\ lastCoerce.result.val[2].value = <<18, 52>>

----------------------------------------------------------------------------
(* Properties of the contract invocation layer *)

Submissions == {"send_raw_transaction", "send_transaction"}
Range(seq) == {seq[i] : i \in DOMAIN seq}
Positions(trace, names) == {i \in 1..Len(trace) : trace[i] \in names}

\* C10: a register operation makes the simulation call before it submits,
\* submits exactly one transaction, and returns a result whose agent_id is
\* the integer the simulation returned and whose tx_hash is a non-empty text
\* starting with "0x".
C10_RegisterSimulatesThenSubmitsOnce ==
    \A c \in Callers :
        calls[c].op \in RegisterOps =>
            LET call == calls[c]
                sent == Positions(call.trace, Submissions)
                simulated == Positions(call.trace, {"call"})
            IN  /\ Cardinality(sent) <= 1
                /\ \A i \in sent : \E j \in simulated : j < i
                /\ call.pc = "done" /\ call.result.ok =>
                      /\ Cardinality(sent) = 1
                      /\ Cardinality(simulated) = 1
                      /\ Len(node.accepted) >= 1
                      /\ Len(call.result.val.tx_hash) > 2
                      /\ SubSeq(call.result.val.tx_hash, 1, 2) = <<48, 120>>
                      /\ call.simulated.ok /\ call.simulated.val.t = "int"
                            => call.result.val.agent_id = call.simulated.val

C10_Witness ==
    \E c \in Callers :
        /\ calls[c].op = "register_agent"
        /\ calls[c].pc = "done"
        /\ calls[c].result.ok
        /\ calls[c].simulated = Ok(PyInt(7))
        /\ calls[c].result.val.agent_id = PyInt(7)
        /\ calls[c].result.val.tx_hash = <<48, 120, 48, 97, 97, 97>>
        /\ calls[c].trace[1] = "call"


\* C11 as stated: once the simulation call of a register operation has
\* failed, the operation does not end there: it goes on to submit, and a
\* result it returns has agent_id None, a transaction hash, and exactly one
\* submission behind it.
C11_SimulationFailureNeverAborts ==
    \A c \in Callers :
        LET call == calls[c]
        IN  (call.op \in RegisterOps /\ "call" \in Range(call.trace) /\ ~call.simulated.ok) =>
                /\ ~(call.pc = "done" /\ call.trace = <<"call">>)
                /\ call.pc = "done" /\ call.result.ok =>
                      /\ call.result.val.agent_id = PyNone
                      /\ Len(call.result.val.tx_hash) > 2
                      /\ Cardinality(Positions(call.trace, Submissions)) = 1


\* The transaction parameters of a call are complete once the gas limit is set.
ParamsBuilt(call) == "gas" \in DOMAIN call.tx_params

\* The fee-history lookup succeeded: the RPC answered, with a priority fee
\* and a base fee in the answer.
LookupSucceeded(call) ==
    /\ call.fee_history.ok
    /\ Len(call.fee_history.val.reward) > 0
    /\ Len(call.fee_history.val.reward[1]) > 0
    /\ Len(call.fee_history.val.baseFeePerGas) > 0

\* C12: the parameters of every built transaction carry exactly one fee
\* model.  After a successful fee-history lookup: maxPriorityFeePerGas is the
\* reported priority fee, maxFeePerGas the last base fee plus twice that, and
\* no gasPrice.  After a failed lookup, of any kind: the gasPrice the node
\* reports and neither of the other two.
C12_ExactlyOneFeeModel ==
    \A c \in Callers :
        LET call == calls[c]
            p == call.tx_params
            keys == DOMAIN p
            eip1559 == {"maxFeePerGas", "maxPriorityFeePerGas"}
        IN  (call.op \in MutatingOps /\ ParamsBuilt(call)) =>
                /\ (eip1559 \subseteq keys) # ("gasPrice" \in keys)
                /\ (eip1559 \cap keys # {}) => (eip1559 \subseteq keys)
                /\ LookupSucceeded(call) =>
                      LET fh == call.fee_history.val
                          priority == fh.reward[1][1]
                          base == fh.baseFeePerGas[Len(fh.baseFeePerGas)]
                      IN  /\ "gasPrice" \notin keys
                          /\ eip1559 \subseteq keys
                          /\ p.maxPriorityFeePerGas = priority
                          /\ p.maxFeePerGas = base + 2 * priority
                /\ ~LookupSucceeded(call) =>
                      /\ eip1559 \cap keys = {}
                      /\ "gasPrice" \in keys
                      /\ call.gas_price.ok /\ p.gasPrice = call.gas_price.val

\* A submitted transaction whose fee-history answer lacked the priority fee:
\* it carries the legacy gas price.
C12_Witness ==
    \E c \in Callers :
        /\ calls[c].op = "give_feedback"
        /\ calls[c].pc = "done" /\ calls[c].result.ok
        /\ calls[c].fee_history.ok /\ ~LookupSucceeded(calls[c])
        /\ calls[c].tx_params.gasPrice = 3


\* C13 as stated: the gas limit of a built transaction is the caller's
\* override when it is positive, else the estimate; and whenever the
\* estimation has failed the parameters are completed with the default
\* 200000 and the operation goes on: it does not end at the estimation.
C13_EstimationFailureFallsBack ==
    \A c \in Callers :
        LET call == calls[c]
            estimated == "estimate_gas" \in Range(call.trace)
        IN  call.op \in MutatingOps =>
                /\ ParamsBuilt(call) /\ call.args.gas_limit > 0 =>
                      call.tx_params.gas = call.args.gas_limit /\ ~estimated
                /\ ParamsBuilt(call) /\ ~(call.args.gas_limit > 0) /\ call.estimate.ok =>
                      call.tx_params.gas = call.estimate.val
                /\ estimated /\ ~call.estimate.ok =>
                      /\ ParamsBuilt(call)
                      /\ call.tx_params.gas = DefaultGas
                      /\ call.trace[Len(call.trace)] = "estimate_gas" => call.pc = "build"


\* The transaction identifier an operation returned.
TxHashOf(call) ==
    IF call.op \in RegisterOps THEN call.result.val.tx_hash ELSE call.result.val

\* The transactions the node took from one operation of one caller.
TakenFrom(c, n) ==
    {i \in DOMAIN node.accepted : node.accepted[i].caller = c /\ node.accepted[i].n = n}

\* C14: a mutating operation never uses both submission paths, and one that
\* succeeds has submitted exactly one transaction: signed locally and sent
\* raw when the service has a private key, handed unsigned to the node when
\* it has none.  What it returns as transaction identifier is hex text that
\* starts with "0x".
C14_OneSubmissionOnePath ==
    \A c \in Callers :
        LET call == calls[c]
            sent == Positions(call.trace, Submissions)
            signings == Positions(call.trace, {"sign_transaction"})
            local == svc.account # NoAccount
        IN  call.op \in MutatingOps =>
                /\ Cardinality(sent) <= 1
                /\ call.pc = "done" /\ call.result.ok =>
                      /\ Cardinality(sent) = 1
                      /\ Cardinality(TakenFrom(c, call.n)) = 1
                      /\ local =>
                            /\ Range(call.trace) \cap Submissions = {"send_raw_transaction"}
                            /\ Cardinality(signings) = 1
                            /\ \A i \in signings, j \in sent : i < j
                      /\ ~local =>
                            /\ Range(call.trace) \cap Submissions = {"send_transaction"}
                            /\ signings = {}
                      /\ LET tx_hex == TxHashOf(call)
                         IN  /\ Len(tx_hex) > 2
                             /\ SubSeq(tx_hex, 1, 2) = <<48, 120>>
                             /\ \A i \in 3..Len(tx_hex) : IsHexDigit(tx_hex[i])

\* approve() on a service with a private key has returned a hash.
C14_Witness ==
    \E c \in Callers :
        /\ calls[c].op = "approve"
        /\ calls[c].pc = "done" /\ calls[c].result.ok
        /\ svc.account # NoAccount
        /\ calls[c].result.val = <<48, 120, 99, 97, 102, 101, 98, 97, 98, 101>>
        /\ calls[c].trace[Len(calls[c].trace)] = "send_raw_transaction"


\* C15 as stated: wait_for_receipt with a timeout ends; with
\* ContractInteractionError when the timeout passed without a receipt or the
\* transaction was not found, and with the decoded receipt when there is one.
C15_WaitEndsTypedOrDecoded ==
    \A c \in Callers :
        LET call == calls[c]
        IN  (call.op = "wait_for_receipt" /\ call.pc = "done") =>
                /\ call.receipt.ok =>
                      call.result = Ok(_decode_registration_receipt(call.receipt.val))
                /\ (~call.receipt.ok /\ call.receipt.err \in {"TimeExhausted", "TransactionNotFound"}) =>
                      call.result = Raise("ContractInteractionError")


\* Two transactions the node took, the later one from an operation that
\* began when the earlier one was already taken.
Serialized(i, j) == i < j /\ node.accepted[j].began >= i

\* C16: reading the nonce reserves nothing: the call takes the pending count
\* as it is at that moment and the node is as before.  Transactions of one
\* account whose operations were serialized carry distinct nonces; two
\* transactions of one account with the same nonce come from operations that
\* overlapped.
C16_NonceReadRaces ==
    /\ [](\A i, j \in DOMAIN node.accepted :
             (i < j /\ node.accepted[i].sender = node.accepted[j].sender) =>
                 /\ Serialized(i, j) => node.accepted[i].nonce # node.accepted[j].nonce
                 /\ node.accepted[i].nonce = node.accepted[j].nonce =>
                       /\ node.accepted[j].began < i
                       /\ node.accepted[i].caller # node.accepted[j].caller)
    /\ [][\A c \in RaceCallers :
             (calls[c].pc = "nonce" /\ calls'[c].pc = "fee") =>
                 /\ calls'[c].tx_params.nonce = node.pending
                 /\ node' = node]_vars

\* Two overlapping calls have both submitted, with the same nonce for the
\* same account, and both have a transaction hash.
C16_Witness ==
    /\ Len(node.accepted) = 2
    /\ node.accepted[1].sender = node.accepted[2].sender
    /\ node.accepted[1].nonce = node.accepted[2].nonce
    /\ node.accepted[1].caller # node.accepted[2].caller
    /\ \A c \in RaceCallers : calls[c].pc = "done" /\ calls[c].result.ok


----------------------------------------------------------------------------
(* Properties of error propagation, retries and the content store *)

\* A step that was made and failed (an outcome never recorded has no error).
Failed(outcome) == ~outcome.ok /\ outcome.err # ""

\* C17 as stated: an operation that ends with a failure ends with a subclass
\* of SDKError, and an operation that returns normally has had no failed step
\* other than the fee-history lookup, the simulation of a registration and
\* the pinning service.
C17_OnlyThreeFallbacksElseTyped ==
    /\ \A c \in Callers :
          LET call == calls[c]
          IN  call.pc = "done" =>
                  /\ ~call.result.ok => call.result.err \in SDKErrors
                  /\ call.result.ok =>
                        /\ ~Failed(call.estimate)
                        /\ ~Failed(call.gas_price)
                        /\ call.receipt.ok => call.receipt.val.logs.ok
    /\ storage.pc = "done" =>
          /\ ~storage.result.ok => storage.result.err \in SDKErrors
          /\ storage.result.ok /\ storage.answer.ok =>
                StoreResponse(storage.answer.val, "Hash").ok

\* The RPCs of one operation, each made at most once.
RpcNames ==
    {"call", "get_transaction_count", "fee_history", "gas_price", "estimate_gas",
     "build_transaction", "sign_transaction", "send_raw_transaction", "send_transaction",
     "wait_for_transaction_receipt"}

\* C18: nothing is retried.  An operation makes each RPC at most once and
\* submits at most once; the node has at most one transaction from it; once
\* it has failed, a submission it made is the last thing it did.  A store
\* operation posts at most once to the pinning service and at most once to
\* the primary store.
C18_NoRetries ==
    /\ \A c \in Callers :
          LET call == calls[c]
          IN  /\ \A name \in RpcNames : Cardinality(Positions(call.trace, {name})) <= 1
              /\ Cardinality(Positions(call.trace, Submissions)) <= 1
              /\ Cardinality(TakenFrom(c, call.n)) <= 1
              /\ (call.pc = "done" /\ ~call.result.ok) =>
                    \A i \in Positions(call.trace, Submissions) : i = Len(call.trace)
    /\ Cardinality(Positions(storage.posts, {"pinning"})) <= 1
    /\ Cardinality(Positions(storage.posts, {"primary"})) <= 1
    /\ Len(storage.posts) <= 2

\* A store operation has failed after one post to each store.
C18_Witness ==
    /\ storage.pc = "done"
    /\ ~storage.result.ok
    /\ storage.posts = <<"pinning", "primary">>


\* A store answered with a content identifier under the given key.
Stored(answer, key) ==
    /\ answer.status = 200
    /\ answer.body.ok
    /\ answer.body.val.kind = "object"
    /\ key \in DOMAIN answer.body.val.fields
    /\ Truthy(answer.body.val.fields[key])

\* C19 as stated: with a gateway and an API key the pinning service is
\* posted to first; when that attempt fails the primary store is posted to
\* next, and the operation fails only if the primary store fails too; when
\* the attempt succeeds the primary store is not contacted; without the
\* pinning configuration only the primary store is contacted.
C19_PinningFirstSilentFallback ==
    (storage.pc = "done" /\ storage.posts # <<>>) =>
        IF PinningConfigured(storage.cfg)
        THEN /\ storage.posts[1] = "pinning"
             /\ Stored(storage.pinning.val, "IpfsHash") =>
                   storage.posts = <<"pinning">> /\ storage.result.ok
             /\ ~Stored(storage.pinning.val, "IpfsHash") =>
                   /\ storage.posts = <<"pinning", "primary">>
                   /\ storage.result.ok <=> Stored(storage.answer.val, "Hash")
        ELSE /\ storage.posts = <<"primary">>
             /\ storage.result.ok <=> Stored(storage.answer.val, "Hash")

\* C20 as stated: a store operation ends with a reference ipfs://<cid> whose
\* cid is not empty, or with IPFSStorageError; the latter whenever the store
\* is unreachable, answers with an error status or returns no identifier,
\* and, before any post, for a document that cannot be serialised and for a
\* missing path.
C20_ReferenceOrStorageError ==
    storage.pc = "done" =>
        /\ \/ /\ storage.result.ok
              /\ Len(storage.result.val) > Len(Text_ipfs)
              /\ SubSeq(storage.result.val, 1, Len(Text_ipfs)) = Text_ipfs
           \/ storage.result = Raise("IPFSStorageError")
        /\ storage.input \in {"non_serializable", "missing"} =>
              storage.posts = <<>> /\ storage.result = Raise("IPFSStorageError")
        /\ (storage.answer.ok /\ ~Stored(storage.answer.val, "Hash")) =>
              storage.result = Raise("IPFSStorageError")

\* str.upper() / str.lower() of an address argument, and a keyword call with
\* every textual address argument respelled.
UpperText(s) == [i \in 1..Len(s) |-> Upper(s[i])]

Respelled(kwargs, upper) ==
    [i \in 1..Len(kwargs) |->
        IF /\ kwargs[i][1] \in {"client_address", "identity_registry", "signer_address"}
           /\ kwargs[i][2].t = "str"
        THEN <<kwargs[i][1],
               PyStr(IF upper THEN UpperText(kwargs[i][2].v) ELSE LowerText(kwargs[i][2].v))>>
        ELSE kwargs[i]]

\* C23: every address of a payload build() returned is in normalised form:
\* normalising it again, or normalising its upper-case spelling, gives the
\* same text; and build() on the same signer with the address arguments
\* spelled in upper or in lower case returns a payload with the same fields
\* and the same encoded bytes.
C23_AddressCaseDoesNotMatter ==
    BuildReturned =>
        /\ \A a \in {Payload.client_address, Payload.identity_registry, Payload.signer_address} :
              /\ to_checksum_address(PyStr(a)) = Ok(a)
              /\ to_checksum_address(PyStr(UpperText(a))) = Ok(a)
              /\ to_checksum_address(PyStr(LowerText(a))) = Ok(a)
        /\ \A other \in {build(account, Respelled(lastBuild.kwargs, upper), lastBuild.backend) :
                             upper \in BOOLEAN} :
              /\ other = lastBuild.result
              /\ encoded(other.val) = encoded(Payload)

\* build() returned a payload for a client address written in upper case
\* with the 0X prefix, and holds it in normalised form.
C23_Witness ==
    /\ BuildReturned
    /\ Arg(lastBuild.kwargs, "client_address", PyNone) = PyStr(AddrUpperAB)
    /\ Payload.client_address = to_checksum_address(PyStr(AddrLowerAB)).val
    /\ Payload.client_address # AddrUpperAB

----------------------------------------------------------------------------
(* Properties of the client facade over the contract services *)

\* C21 as stated: get_last_index(agent_id, client_address) returns an
\* integer, the registry's last feedback index of that client, and is
\* read-only: it submits no transaction.
C21_LastIndexQueryReturnsInteger ==
    \A c \in Callers :
        (calls[c].op = "get_last_index" /\ calls[c].pc = "done") =>
            /\ calls[c].result.ok
            /\ calls[c].result.val.t = "int"
            /\ Positions(calls[c].trace, Submissions) = {}
            /\ Len(node.accepted) = calls[c].began

\* The other arguments of give_feedback can be coerced.
TagsCoercible(given) ==
    /\ _coerce_bytes32(given.tag1).ok
    /\ _coerce_bytes32(given.tag2).ok
    /\ _coerce_bytes32(given.feedback_hash).ok

\* C22: give_feedback passes the authorization payload as the seventh
\* positional argument of giveFeedback with its bytes unchanged: given
\* p.encoded or p.hex() of a payload p that build() returned, the argument is
\* the same 289 bytes, those of p.encoded.
C22_AuthPayloadPassedUnchanged ==
    \A c \in Callers : \A p \in BuiltPayloads :
        (/\ calls[c].op = "give_feedback"
         /\ calls[c].given.feedback_auth \in {PyBytes(encoded(p)), PyStr(hex(p))}
         /\ TagsCoercible(calls[c].given)) =>
            /\ Len(calls[c].fn) = 7
            /\ calls[c].fn[7] = encoded(p)
            /\ Len(calls[c].fn[7]) = 289

\* give_feedback was given p.hex() and has submitted its transaction.
C22_Witness ==
    \E c \in Callers : \E p \in BuiltPayloads :
        /\ calls[c].op = "give_feedback"
        /\ calls[c].given.feedback_auth = PyStr(hex(p))
        /\ calls[c].pc = "done" /\ calls[c].result.ok
        /\ calls[c].fn[7] = encoded(p)

\* A bytes32 argument longer than 32 bytes once converted.
Oversized(value) ==
    LET raw == _to_bytes_general(value)
    IN  raw.ok /\ Len(raw.val) > Bytes32Width

MalformedMetadata(call) ==
    call.op = "register_agent" /\ ~normalize_metadata_entries(call.given.metadata).ok

\* The failures before submission that C26 lists.
FailsBeforeSubmission(call) ==
    \/ MalformedMetadata(call)
    \/ /\ call.op = "give_feedback"
       /\ \/ Oversized(call.given.tag1)
          \/ Oversized(call.given.tag2)
          \/ Oversized(call.given.feedback_hash)
    \/ call.op = "append_response" /\ Oversized(call.given.response_hash)
    \/ /\ call.op \in MutatingOps
       /\ ~call.built.ok
       /\ call.built.err \in {"ContractLogicError", "ValueError"}

\* C26 as stated: malformed metadata in register_agent, an oversized bytes32
\* value in give_feedback or append_response, and a reverted or unparseable
\* transaction build each end the operation with ContractInteractionError
\* and without a submission; with malformed metadata there is no simulation
\* call either.
C26_FailureBeforeSubmissionIsTyped ==
    \A c \in Callers :
        (calls[c].pc = "done" /\ FailsBeforeSubmission(calls[c])) =>
            /\ calls[c].result = Raise("ContractInteractionError")
            /\ Positions(calls[c].trace, Submissions) = {}
            /\ Len(node.accepted) = calls[c].began
            /\ MalformedMetadata(calls[c]) => calls[c].trace = <<>>

\* C28: a decoded receipt holds the Registered events of the receipt and the
\* agentId argument of the first one; without a Registered event (none in
\* the receipt, or logs that cannot be decoded) agent_id is None and the
\* list is empty; agent_id is not None only if the list is not empty.
C28_DecodedReceipt ==
    \A c \in Callers :
        (calls[c].op = "wait_for_receipt" /\ calls[c].pc = "done" /\ calls[c].result.ok) =>
            LET decoded == calls[c].result.val
                logs == calls[c].receipt.val.logs
                registered == IF logs.ok THEN logs.val ELSE <<>>
            IN  /\ decoded.events = registered
                /\ decoded.agent_id =
                       IF registered # <<>> /\ "agentId" \in DOMAIN registered[1]
                       THEN PyInt(registered[1].agentId) ELSE PyNone
                /\ registered = <<>> => decoded.agent_id = PyNone /\ decoded.events = <<>>
                /\ decoded.agent_id # PyNone => decoded.events # <<>>

\* A receipt with two Registered events was decoded to the first one's agentId.
C28_Witness ==
    \E c \in Callers :
        /\ calls[c].op = "wait_for_receipt"
        /\ calls[c].pc = "done" /\ calls[c].result.ok
        /\ Len(calls[c].result.val.events) = 2
        /\ calls[c].result.val.agent_id = PyInt(7)

\* C29 as stated: the transaction a mutating method of the client builds
\* carries the value the caller passed and, when positive, the gas limit the
\* caller passed.
C29_GasLimitAndValueForwarded ==
    \A c \in Callers :
        (calls[c].op \in MutatingOps /\ "value" \in DOMAIN calls[c].tx_params) =>
            /\ calls[c].tx_params.value = calls[c].given.value
            /\ ("gas" \in DOMAIN calls[c].tx_params /\ calls[c].given.gas_limit > 0) =>
                  calls[c].tx_params.gas = calls[c].given.gas_limit

\* C30 as stated: on a service with a private key, the sender written in the
\* transaction parameters, whose pending count gave the nonce, is the
\* address of that key, and so is the sender of every transaction the
\* service submitted.
C30_LocalSignerIsSender ==
    svc.account # NoAccount =>
        /\ \A c \in Callers :
              "from" \in DOMAIN calls[c].tx_params =>
                  calls[c].tx_params.from = svc.account.address
        /\ \A i \in DOMAIN node.accepted :
              node.accepted[i].sender = svc.account.address

----------------------------------------------------------------------------
(* Properties of the client's construction and helpers *)

Constructed == facade.op = "__init__" /\ facade.pc \in {"done", "failed"}

\* C24: constructing the client with an empty identity or reputation
\* contract address fails with ContractInteractionError before a registry
\* service is created: no RPC connection has been tried.
C24_EmptyAddressFailsBeforeServices ==
    (/\ Constructed
     /\ \/ ~Truthy(facade.given.identity_contract_address)
        \/ ~Truthy(facade.given.reputation_contract_address)) =>
        /\ facade.pc = "failed"
        /\ facade.result = Raise("ContractInteractionError")
        /\ facade.connections = 0

\* The constructor was given an identity address and an empty reputation
\* address, and has failed.
C24_Witness ==
    /\ Constructed
    /\ Truthy(facade.given.identity_contract_address)
    /\ facade.given.reputation_contract_address = PyStr(<<>>)
    /\ facade.given.private_key # PyNone
    /\ facade.result = Raise("ContractInteractionError")

\* C25: without a storage helper the three store methods fail with
\* IPFSStorageError and nothing is posted; without a builder
\* build_feedback_auth fails with SignatureError.  With the helper
\* configured, the helper's method of the same name is called with the
\* caller's arguments on the configured helper, and the client returns what
\* the helper returned or raised.
C25_HelperRequiredThenDelegated ==
    /\ (facade.op \in StoreOps /\ facade.ipfs_storage = PyNone) =>
          /\ facade.pc = "done"
          /\ facade.result = Raise("IPFSStorageError")
          /\ facade.helper = <<>>
          /\ storage = NoStorage
    /\ (facade.op \in StoreOps /\ facade.ipfs_storage # PyNone) =>
          /\ facade.helper = [op |-> facade.op, input |-> facade.given.input,
                              pin |-> facade.given.pin]
          /\ storage.op = facade.op
          /\ storage.input = facade.given.input
          /\ storage.cfg = facade.ipfs_storage
          /\ facade.pc = "done" => storage.pc = "done" /\ facade.result = storage.result
    /\ (facade.op = "build_feedback_auth" /\ facade.auth_builder = PyNone) =>
          facade.result = Raise("SignatureError") /\ facade.helper = <<>>
    /\ (facade.op = "build_feedback_auth" /\ facade.auth_builder # PyNone) =>
          /\ facade.helper = [op |-> "build", input |-> facade.given.kwargs]
          /\ facade.result = build(facade.auth_builder, facade.given.kwargs, facade.given.backend)

\* store_json on a client with a helper has returned the helper's reference
\* after the pinning service failed and the primary store answered.
C25_Witness ==
    /\ facade.op = "store_json" /\ facade.pc = "done"
    /\ facade.ipfs_storage # PyNone
    /\ storage.posts = <<"pinning", "primary">>
    /\ facade.result = Ok(Text_ipfs \o Cid)

\* The builder the constructor selects.
SelectedBuilder(kw) ==
    IF kw.auth_builder # PyNone THEN kw.auth_builder
    ELSE IF Truthy(kw.auth_private_key) THEN from_key(kw.auth_private_key).val
    ELSE IF Truthy(kw.private_key) THEN from_key(kw.private_key).val
    ELSE PyNone

\* What configure_auth_builder leaves in the client when it returns.
ConfiguredBuilder(given) ==
    IF given.builder # PyNone THEN given.builder
    ELSE IF Truthy(given.private_key) THEN from_key(given.private_key).val
    ELSE given.before

NothingGiven(given) == given.builder = PyNone /\ ~Truthy(given.private_key)

\* Selection, replacement and the returned value, common to both statements
\* of C27.
BuilderSelection ==
    /\ (facade.op = "__init__" /\ facade.pc = "done") =>
          facade.auth_builder = SelectedBuilder(facade.given)
    /\ (facade.op = "configure_auth_builder" /\ facade.result.ok) =>
          /\ facade.auth_builder = ConfiguredBuilder(facade.given)
          /\ facade.result.val = facade.auth_builder
    /\ (facade.op = "configure_auth_builder" /\ ~facade.result.ok) =>
          /\ facade.result = Raise("SignatureError")
          /\ facade.auth_builder = facade.given.before
    /\ (facade.op = "configure_auth_builder" /\ facade.given.before # PyNone) =>
          facade.auth_builder # PyNone

\* C27 as stated: the constructor takes the given builder, else one made
\* from auth_private_key, else one from private_key, else none;
\* configure_auth_builder replaces it with the given builder, else one made
\* from the given key, else keeps it, returns the client's builder, never
\* unconfigures, and fails, with SignatureError and the client unchanged,
\* only when nothing is given and none is configured.
C27_FailsOnlyWhenNothingGiven ==
    /\ BuilderSelection
    /\ (facade.op = "configure_auth_builder" /\ ~facade.result.ok) =>
          NothingGiven(facade.given) /\ facade.given.before = PyNone

\* C27 corrected: as above, but configure_auth_builder fails, with
\* SignatureError and the client unchanged, exactly when nothing is given and
\* none is configured, or when no builder is given and the given private key
\* is not a valid key.
C27_FailsWhenNothingGivenOrKeyInvalid ==
    /\ BuilderSelection
    /\ facade.op = "configure_auth_builder" =>
          (~facade.result.ok <=>
              /\ facade.given.builder = PyNone
              /\ \/ ~Truthy(facade.given.private_key) /\ facade.given.before = PyNone
                 \/ Truthy(facade.given.private_key) /\ ~from_key(facade.given.private_key).ok)

\* configure_auth_builder was given a private key that is not a key while a
\* builder was configured: it failed and the builder is still there.
C27_Witness ==
    /\ facade.op = "configure_auth_builder"
    /\ facade.given.builder = PyNone
    /\ facade.given.private_key = PyStr(Prefix0x \o <<49, 50, 51, 52>>)
    /\ facade.given.before # PyNone
    /\ facade.result = Raise("SignatureError")
    /\ facade.auth_builder = facade.given.before

============================================================================
